---- MODULE Spec2Model ----
(***************************************************************************)
(* Verification model of the design-governance validation engine           *)
(* (src/governance-engine.js) and of the generated-code healing pipeline   *)
(* (src/design-validator.js, parseGeminiResponse).                         *)
(*                                                                         *)
(* Text is modelled as sequences of one-character strings (names, property *)
(* keys) so that split / trim / toLowerCase / replace are computed, and as *)
(* sequences of tokens (artifact contents).                                *)
(***************************************************************************)
EXTENDS Integers, Sequences, FiniteSets, TLC

(***************************************************************************)
(* Bounds                                                                  *)
(***************************************************************************)
MaxNodes == 3        \* nodes of a design tree handed to validate()
NumCalls == 2        \* validate() calls on one engine in the re-entrant specification
ConcMaxNodes == 2    \* nodes of a tree in the re-entrant specification

(***************************************************************************)
(* Characters and string helpers (String.prototype methods used by the     *)
(* engine)                                                                 *)
(***************************************************************************)
WS == {" "}
APP == <<"a", "p", "p", "-">>
STAR == <<"*">>

\* String.prototype.toLowerCase, one character
LowerChar(ch) ==
    CASE ch = "A" -> "a"
      [] ch = "B" -> "b"
      [] ch = "C" -> "c"
      [] ch = "D" -> "d"
      [] ch = "I" -> "i"
      [] ch = "G" -> "g"
      [] ch = "N" -> "n"
      [] ch = "V" -> "v"
      [] ch = "L" -> "l"
      [] ch = "S" -> "s"
      [] ch = "T" -> "t"
      [] OTHER -> ch

toLowerCase(s) == [i \in 1..Len(s) |-> LowerChar(s[i])]

\* s.split(sep)[0]: the text before the first separator
SplitFirst(s, sep) ==
    IF \E i \in 1..Len(s) : s[i] = sep
    THEN LET i == CHOOSE k \in 1..Len(s) : s[k] = sep /\ \A j \in 1..(k-1) : s[j] # sep
         IN  SubSeq(s, 1, i - 1)
    ELSE s

\* String.prototype.trim
trim(s) ==
    IF \A i \in 1..Len(s) : s[i] \in WS
    THEN << >>
    ELSE LET lo == CHOOSE k \in 1..Len(s) : s[k] \notin WS /\ \A j \in 1..(k-1) : s[j] \in WS
             hi == CHOOSE k \in 1..Len(s) : s[k] \notin WS /\ \A j \in (k+1)..Len(s) : s[j] \in WS
         IN  SubSeq(s, lo, hi)

RECURSIVE CollapseFrom(_, _)
CollapseFrom(s, i) ==
    IF i > Len(s) THEN << >>
    ELSE IF s[i] \in WS
         THEN IF i > 1 /\ s[i-1] \in WS
              THEN CollapseFrom(s, i + 1)
              ELSE <<"-">> \o CollapseFrom(s, i + 1)
         ELSE <<s[i]>> \o CollapseFrom(s, i + 1)

\* s.replace(/\s+/g, '-')
HyphenateWs(s) == CollapseFrom(s, 1)

startsWith(s, p) == Len(s) >= Len(p) /\ SubSeq(s, 1, Len(p)) = p

\* s.replace(pat, ''): removes the first occurrence of pat
RemoveFirst(s, pat) ==
    LET Occ == {k \in 1..(Len(s) - Len(pat) + 1) : SubSeq(s, k, k + Len(pat) - 1) = pat}
    IN  IF Occ = {} THEN s
        ELSE LET k == CHOOSE q \in Occ : \A r \in Occ : q <= r
             IN  SubSeq(s, 1, k - 1) \o SubSeq(s, k + Len(pat), Len(s))

\* arr.includes(x)
includes(arr, x) == \E i \in 1..Len(arr) : arr[i] = x

RECURSIVE SeqSum(_)
SeqSum(s) == IF s = << >> THEN 0 ELSE Head(s) + SeqSum(Tail(s))

Max(a, b) == IF a >= b THEN a ELSE b

(***************************************************************************)
(* Registry (constructor argument of GovernanceEngine, read-only)          *)
(*   b : button, declares props V (required) and d, may not contain        *)
(*       another b                                                         *)
(*   c : card, lists b in canContain, forbids nothing                      *)
(*   n : nav, lists b in canContain and forbids everything ("*")           *)
(*   i : icon, rule without a composition section                          *)
(***************************************************************************)
RegistryKeys == {<<"b">>, <<"c">>, <<"n">>, <<"i">>}

registry ==
    [k \in RegistryKeys |->
        CASE k = <<"b">> -> [props |-> << [name |-> <<"V">>, required |-> TRUE],
                                           [name |-> <<"d">>, required |-> FALSE] >>,
                             hasComposition |-> TRUE,
                             canContain |-> << >>, cannotContain |-> << <<"b">> >>]
          [] k = <<"c">> -> [props |-> << >>, hasComposition |-> TRUE,
                             canContain |-> << <<"b">> >>, cannotContain |-> << >>]
          [] k = <<"n">> -> [props |-> << >>, hasComposition |-> TRUE,
                             canContain |-> << <<"b">> >>, cannotContain |-> << STAR >>]
          [] OTHER       -> [props |-> << >>, hasComposition |-> FALSE,
                             canContain |-> << >>, cannotContain |-> << >>]]

\* variant: the MAJOR and MINOR weights exchanged
weights_swapped(severity) ==
    CASE severity = "CRITICAL" -> 50
      [] severity = "MAJOR" -> 5
      [] severity = "MINOR" -> 20
      [] OTHER -> 0

\* this.weights[severity] || 0
weights(severity) ==
    CASE severity = "CRITICAL" -> 50
      [] severity = "MAJOR" -> 20
      [] severity = "MINOR" -> 5
      [] OTHER -> 0

(***************************************************************************)
(* Design trees.  A node label is its name and its componentProperties     *)
(* keys (hasProps = FALSE: the node carries no componentProperties).       *)
(***************************************************************************)
NoProps == [hasProps |-> FALSE, keys |-> << >>]
Props(ks) == [hasProps |-> TRUE, keys |-> ks]

\* the labels a tree node may carry; a tree refers to them by position
LabelTable ==
    << [name |-> <<"a","p","p","-","b">>, cp |-> NoProps],
       [name |-> <<"b">>, cp |-> Props(<< <<"g">> >>)],
       [name |-> <<"b">>, cp |-> Props(<< <<"V", "#", "1">>, <<"g">>, <<"G", "#", "2">> >>)],
       [name |-> <<"B","/","v">>, cp |-> Props(<< >>)],
       [name |-> <<"a","p","p","-","x">>, cp |-> Props(<< <<"g">>, <<"G", "#", "2">> >>)],
       [name |-> <<"x">>, cp |-> Props(<< <<"g">> >>)],
       [name |-> <<"a","p","p"," ","x">>, cp |-> NoProps],
       [name |-> <<" ","A","p","p"," "," ","N">>, cp |-> NoProps],
       [name |-> <<"n">>, cp |-> NoProps],
       [name |-> <<"c">>, cp |-> NoProps],
       [name |-> <<"i">>, cp |-> NoProps] >>

Labels == DOMAIN LabelTable

\* labels used in the re-entrant specification: a registered button with an
\* unknown property, an unregistered prefixed component, a nav
ConcLabels ==
    {i \in Labels : LabelTable[i] \in { [name |-> <<"b">>, cp |-> Props(<< <<"g">> >>)],
                                        [name |-> <<"a","p","p","-","x">>, cp |-> Props(<< <<"g">>, <<"G", "#", "2">> >>)],
                                        [name |-> <<"n">>, cp |-> NoProps] }}

\* parent[k] = 0 for the root (node 1); children are ordered by index
ParentMaps(n) == {p \in [1..n -> 0..(n-1)] : p[1] = 0 /\ \A k \in 2..n : p[k] >= 1 /\ p[k] < k}

\* node.name and the keys of node.componentProperties
NameOf(t, k) == LabelTable[t.label[k]].name
CpOf(t, k) == LabelTable[t.label[k]].cp

RECURSIVE SortedSeq(_)
SortedSeq(S) ==
    IF S = {} THEN << >>
    ELSE LET m == CHOOSE x \in S : \A y \in S : x <= y
         IN  <<m>> \o SortedSeq(S \ {m})

\* node.children, in order
children(t, k) == SortedSeq({j \in 1..t.n : t.parent[j] = k})

(***************************************************************************)
(* GovernanceEngine: one node of _recursiveCheck                           *)
(***************************************************************************)
baseNodeName(name) == toLowerCase(trim(SplitFirst(name, "/")))

cleanName(name) == HyphenateWs(baseNodeName(name))

lookupName(name) ==
    IF startsWith(cleanName(name), APP) THEN RemoveFirst(cleanName(name), APP) ELSE cleanName(name)

isComponent(name) == startsWith(baseNodeName(name), APP) \/ lookupName(name) \in DOMAIN registry

\* the parent's lookup key, as computed inside the nesting check
parentLookup(pname) ==
    LET parentNodeName == HyphenateWs(toLowerCase(pname))
    IN  IF startsWith(parentNodeName, APP) THEN RemoveFirst(parentNodeName, APP) ELSE parentNodeName

\* variant: the '#' suffix is kept
cleanProp_keepSuffix(propKey) == toLowerCase(propKey)

\* propKey.split('#')[0].toLowerCase()
cleanProp(propKey) == toLowerCase(SplitFirst(propKey, "#"))

Violation(t, k, msg, severity, rule, suggestion) ==
    [nodeName |-> NameOf(t, k), message |-> msg, severity |-> severity,
     rule |-> rule, suggestion |-> suggestion,
     node |-> k]   \* node: index of the node the violation was raised for (observation only)

\* nesting check of a registered node against its parent
NestingViolations(t, k, par) ==
    IF par = 0 THEN << >>
    ELSE LET pl == parentLookup(NameOf(t, par))
         IN  IF pl \in DOMAIN registry /\ registry[pl].hasComposition
                /\ (includes(registry[pl].cannotContain, lookupName(NameOf(t, k)))
                    \/ includes(registry[pl].cannotContain, STAR))
             THEN << Violation(t, k, <<"Illegal nesting", lookupName(NameOf(t, k)), pl>>,
                               "CRITICAL", "Composition", "Move out") >>
             ELSE << >>

RECURSIVE PropertyViolationsFrom(_, _, _, _)
PropertyViolationsFrom(t, k, officialProps, i) ==
    LET keys == CpOf(t, k).keys
    IN  IF i > Len(keys) THEN << >>
        ELSE (IF includes(officialProps, cleanProp(keys[i]))
              THEN << >>
              ELSE << Violation(t, k, <<"Unknown property", cleanProp(keys[i])>>,
                                "MINOR", "Property Validation", "Use official props.") >>)
             \o PropertyViolationsFrom(t, k, officialProps, i + 1)

\* variant: a declared property marked required and absent from the node is
\* reported as well
PropertyViolations_required(t, k) ==
    LET rp == registry[lookupName(NameOf(t, k))].props
        officialProps == [i \in 1..Len(rp) |-> toLowerCase(rp[i].name)]
        keys == CpOf(t, k).keys
        Missing[i \in 0..Len(rp)] ==
            IF i = 0 THEN << >>
            ELSE Missing[i-1] \o
                 (IF rp[i].required /\ ~\E j \in 1..Len(keys) : cleanProp(keys[j]) = officialProps[i]
                  THEN << Violation(t, k, <<"Missing property", officialProps[i]>>,
                                    "MINOR", "Property Validation", "Use official props.") >>
                  ELSE << >>)
    IN  (IF CpOf(t, k).hasProps THEN PropertyViolationsFrom(t, k, officialProps, 1) ELSE << >>)
        \o Missing[Len(rp)]

\* property check of a registered node (every rule of the registry carries a
\* props map, so the guard on componentRules.props is always passed)
PropertyViolations(t, k) ==
    IF CpOf(t, k).hasProps
    THEN LET rp == registry[lookupName(NameOf(t, k))].props
             officialProps == [i \in 1..Len(rp) |-> toLowerCase(rp[i].name)]
         IN  PropertyViolationsFrom(t, k, officialProps, 1)
    ELSE << >>

RECURSIVE FragmentPropsFrom(_, _, _)
FragmentPropsFrom(keys, i, acc) ==
    IF i > Len(keys) THEN acc
    ELSE FragmentPropsFrom(keys, i + 1,
            IF includes(acc, cleanProp(keys[i])) THEN acc ELSE Append(acc, cleanProp(keys[i])))

\* _generateFragment: props lists the keys of the draft props object, each
\* mapped to {type: 'string', required: false}
generateFragment(t, k) ==
    [name |-> lookupName(NameOf(t, k)),
     category |-> "new-discovery",
     props |-> IF CpOf(t, k).hasProps THEN FragmentPropsFrom(CpOf(t, k).keys, 1, << >>) ELSE << >>,
     propType |-> "string",
     propRequired |-> FALSE,
     canContain |-> IF Len(children(t, k)) > 0 THEN << STAR >> ELSE << >>,
     cannotContain |-> << >>,
     constraints |-> <<"mustBeOfficialized">>]

NoFragment == [name |-> << >>, category |-> "null", props |-> << >>, propType |-> "null",
               propRequired |-> FALSE, canContain |-> << >>, cannotContain |-> << >>,
               constraints |-> << >>]

\* violations raised by the visit of node k whose parent is par (0: none), in order
NodeViolations(t, k, par) ==
    IF ~isComponent(NameOf(t, k)) THEN << >>
    ELSE IF lookupName(NameOf(t, k)) \notin DOMAIN registry
         THEN << Violation(t, k, <<"not in Registry", lookupName(NameOf(t, k))>>,
                           "CRITICAL", "Existence Check", "Register to officialize.") >>
         ELSE NestingViolations(t, k, par) \o PropertyViolations(t, k)

NodeStatus(t, k, par) ==
    IF lookupName(NameOf(t, k)) \notin DOMAIN registry THEN "UNKNOWN"
    ELSE IF NestingViolations(t, k, par) # << >> THEN "VIOLATION"
    ELSE "VERIFIED"

\* the scannedComponents entry pushed by the visit of node k (none for a layer
\* that is not a component)
NodeComponents(t, k, par) ==
    IF ~isComponent(NameOf(t, k)) THEN << >>
    ELSE << [id |-> k, name |-> NameOf(t, k), lookupName |-> lookupName(NameOf(t, k)),
             status |-> NodeStatus(t, k, par),
             fragment |-> IF lookupName(NameOf(t, k)) \notin DOMAIN registry
                          THEN generateFragment(t, k) ELSE NoFragment] >>

(***************************************************************************)
(* Engine state.  validate() stores its accumulators in fields of the      *)
(* engine: globalScore and hasCriticalViolation by value, and references   *)
(* to the violations array, the scannedComponents array and the breakdown  *)
(* object that it allocates on entry.  heap[r] holds the three objects     *)
(* allocated by the r-th validate(); a returned report shares them.        *)
(* req, files, hpc and ran are the state of a parseGeminiResponse call and  *)
(* probe is the last application of a helper of the visual decision; they  *)
(* are described with the healing pipeline below.                          *)
(***************************************************************************)
VARIABLES this, heap, calls, active, req, files, hpc, ran, probe,
          handlers, written, lastGeneratedFiles, generatorCalls

srvVars == <<handlers, written, lastGeneratedFiles, generatorCalls>>

govVars == <<this, heap, calls, active>>

EmptyBreakdown == [CRITICAL |-> 0, MAJOR |-> 0, MINOR |-> 0, PASS |-> 0]

NoTree == [n |-> 0, parent |-> << >>, label |-> << >>]
NoReport == [score |-> -1, valid |-> FALSE, ref |-> 0]

GovInit ==
    /\ this = [globalScore |-> -1, hasCriticalViolation |-> FALSE, ref |-> 0]
    /\ heap = << >>
    /\ calls = [c \in 1..NumCalls |-> [pc |-> "idle", tree |-> NoTree, work |-> << >>, report |-> NoReport]]
    /\ active = << >>

\* _addViolation on the engine fields (e: the fields with the referenced objects inlined)
addViolation(e, v) ==
    [e EXCEPT !.violations = Append(@, v),
              !.globalScore = @ - weights(v.severity),
              !.breakdown = [@ EXCEPT ![v.severity] = @ + 1],
              !.hasCriticalViolation = IF v.severity = "CRITICAL" THEN TRUE ELSE @]

RECURSIVE addViolations(_, _)
addViolations(e, vs) == IF vs = << >> THEN e ELSE addViolations(addViolation(e, Head(vs)), Tail(vs))

\* validate(), lines 16-27: reset the fields and enter _recursiveCheck(node)
Begin(c, maxN, L) ==
    /\ calls[c].pc = "idle"
    /\ \E n \in 1..maxN : \E p \in ParentMaps(n) : \E l \in [1..n -> L] :
         calls' = [calls EXCEPT ![c] = [pc |-> "walk", tree |-> [n |-> n, parent |-> p, label |-> l],
                                        work |-> << <<1, 0>> >>, report |-> NoReport]]
    /\ heap' = Append(heap, [violations |-> << >>, scannedComponents |-> << >>, breakdown |-> EmptyBreakdown])
    /\ this' = [globalScore |-> 100, hasCriticalViolation |-> FALSE, ref |-> Len(heap) + 1]
    /\ active' = <<c>> \o active

\* one activation of _recursiveCheck(node, parentNode) up to the recursion
\* into the children, which are visited next, first child first
Visit(c) ==
    /\ active # << >> /\ Head(active) = c
    /\ calls[c].pc = "walk" /\ calls[c].work # << >>
    /\ LET t == calls[c].tree
           k == Head(calls[c].work)[1]
           par == Head(calls[c].work)[2]
           ch == children(t, k)
           e0 == [globalScore |-> this.globalScore, hasCriticalViolation |-> this.hasCriticalViolation,
                  violations |-> heap[this.ref].violations, breakdown |-> heap[this.ref].breakdown]
           e1 == addViolations(e0, NodeViolations(t, k, par))
       IN  /\ this' = [this EXCEPT !.globalScore = e1.globalScore,
                                   !.hasCriticalViolation = e1.hasCriticalViolation]
           /\ heap' = [heap EXCEPT ![this.ref] =
                         [violations |-> e1.violations,
                          scannedComponents |-> @.scannedComponents \o NodeComponents(t, k, par),
                          breakdown |-> e1.breakdown]]
           /\ calls' = [calls EXCEPT ![c].work = [i \in 1..Len(ch) |-> <<ch[i], k>>] \o Tail(@)]
    /\ UNCHANGED active

\* variant: the threshold is exclusive
validOf_strict(hasCriticalViolation, score) == ~hasCriticalViolation /\ score > 90

\* the valid field of the report
validOf(hasCriticalViolation, score) == ~hasCriticalViolation /\ score >= 90

\* validate(), lines 29-41: clamp, count PASS, build the report
Finish(c) ==
    /\ active # << >> /\ Head(active) = c
    /\ calls[c].pc = "walk" /\ calls[c].work = << >>
    /\ LET score == Max(0, this.globalScore)
           sc == heap[this.ref].scannedComponents
           pass == Cardinality({i \in 1..Len(sc) : sc[i].status = "VERIFIED"})
       IN  /\ this' = [this EXCEPT !.globalScore = score]
           /\ heap' = [heap EXCEPT ![this.ref].breakdown.PASS = pass]
           /\ calls' = [calls EXCEPT ![c].pc = "done",
                                     ![c].report = [score |-> score,
                                                    valid |-> validOf(this.hasCriticalViolation, score),
                                                    ref |-> this.ref]]
    /\ active' = Tail(active)

\* the report object of a finished call, as its holder reads it
Report(c) ==
    [score |-> calls[c].report.score,
     valid |-> calls[c].report.valid,
     violations |-> heap[calls[c].report.ref].violations,
     components |-> heap[calls[c].report.ref].scannedComponents,
     breakdown |-> heap[calls[c].report.ref].breakdown]

Returned(c) == calls[c].pc = "done"

(***************************************************************************)
(* validate() as a function of the tree alone: the report of a call that   *)
(* runs on a fresh engine without interruption                             *)
(***************************************************************************)
RECURSIVE PreOrderFrom(_, _, _)
PreOrderFrom(t, k, par) ==
    LET ch == children(t, k)
        Sub[i \in 0..Len(ch)] == IF i = 0 THEN << >> ELSE Sub[i-1] \o PreOrderFrom(t, ch[i], k)
    IN  << <<k, par>> >> \o Sub[Len(ch)]

PreOrder(t) == PreOrderFrom(t, 1, 0)

CountSev(vs, sev) == Cardinality({i \in 1..Len(vs) : vs[i].severity = sev})

Penalty(vs) == 50 * CountSev(vs, "CRITICAL") + 20 * CountSev(vs, "MAJOR") + 5 * CountSev(vs, "MINOR")

IsolatedReport(t) ==
    LET po == PreOrder(t)
        V[i \in 0..Len(po)] == IF i = 0 THEN << >> ELSE V[i-1] \o NodeViolations(t, po[i][1], po[i][2])
        C[i \in 0..Len(po)] == IF i = 0 THEN << >> ELSE C[i-1] \o NodeComponents(t, po[i][1], po[i][2])
        vs == V[Len(po)]
        cs == C[Len(po)]
        score == Max(0, 100 - Penalty(vs))
    IN  [score |-> score,
         valid |-> CountSev(vs, "CRITICAL") = 0 /\ score >= 90,
         violations |-> vs,
         components |-> cs,
         breakdown |-> [CRITICAL |-> CountSev(vs, "CRITICAL"), MAJOR |-> CountSev(vs, "MAJOR"),
                        MINOR |-> CountSev(vs, "MINOR"),
                        PASS |-> Cardinality({i \in 1..Len(cs) : cs[i].status = "VERIFIED"})]]

(***************************************************************************)
(* C1: the score of every returned report is                               *)
(* max(0, 100 - (50 * #CRITICAL + 20 * #MAJOR + 5 * #MINOR)) over the      *)
(* violations listed in the report, hence an integer in 0..100.            *)
(***************************************************************************)
C1_ScoreIsClampedPenalty ==
    \A c \in 1..NumCalls :
        Returned(c) =>
            /\ Report(c).score = Max(0, 100 - Penalty(Report(c).violations))
            /\ Report(c).score \in 0..100

\* a report whose penalties exceed 100 (floor reached) and that lists both severities in use
C1_Witness ==
    /\ Returned(1)
    /\ Penalty(Report(1).violations) > 100
    /\ Report(1).score = 0
    /\ CountSev(Report(1).violations, "MINOR") > 0

(***************************************************************************)
(* C2: valid is true exactly when breakdown.CRITICAL = 0 and score >= 90.  *)
(***************************************************************************)
C2_ValidIffNoCriticalAndScore90 ==
    \A c \in 1..NumCalls :
        Returned(c) =>
            (Report(c).valid <=> (Report(c).breakdown.CRITICAL = 0 /\ Report(c).score >= 90))

\* the boundary score 90 (two MINOR violations) with valid = TRUE
C2_Witness ==
    /\ Returned(1)
    /\ Report(1).score = 90
    /\ Report(1).valid
    /\ Report(1).breakdown.MINOR = 2

(***************************************************************************)
(* C3: the accumulators are local to one validate() call: the report a     *)
(* call returns is the function IsolatedReport of its tree, whatever       *)
(* other calls on the same engine ran before it or interleave with it,     *)
(* and a report already returned is not changed afterwards.                *)
(***************************************************************************)
C3_ReportDependsOnlyOnTree ==
    \A c \in 1..NumCalls : Returned(c) => Report(c) = IsolatedReport(calls[c].tree)

\* the second half alone: a returned report keeps its contents
C3_ReturnedReportIsStable ==
    [][\A c \in 1..NumCalls : Returned(c) => (Returned(c)' /\ Report(c)' = Report(c))]_govVars

(***************************************************************************)
(* Vocabulary of the claims about single nodes                             *)
(***************************************************************************)
\* governed, as the specification defines it: the normalized base name (first
\* segment, trimmed, lowercased, whitespace collapsed to hyphens) carries the
\* reserved prefix, or the lookup name is a Registry key
Governed(name) == startsWith(cleanName(name), APP) \/ lookupName(name) \in DOMAIN registry

Registered(name) == lookupName(name) \in DOMAIN registry

\* the rule found under key forbids a child with lookup name child
Forbids(key, child) ==
    /\ key \in DOMAIN registry
    /\ registry[key].hasComposition
    /\ (includes(registry[key].cannotContain, child) \/ includes(registry[key].cannotContain, STAR))

ViolationsOf(r, k) == {i \in 1..Len(r.violations) : r.violations[i].node = k}

CountFor(r, k, sev) == Cardinality({i \in ViolationsOf(r, k) : r.violations[i].severity = sev})

EntriesOf(r, k) == {i \in 1..Len(r.components) : r.components[i].id = k}

\* keys of node k whose cleaned name is not a declared property of its rule
UnknownKeys(t, k) ==
    LET rp == registry[lookupName(NameOf(t, k))].props
        declared == {toLowerCase(rp[i].name) : i \in 1..Len(rp)}
        keys == CpOf(t, k).keys
    IN  {i \in 1..Len(keys) : toLowerCase(SplitFirst(keys[i], "#")) \notin declared}

(***************************************************************************)
(* C4: a node whose parent's name, normalized like the node's own name,    *)
(* has a Registry rule whose cannotContain lists the node's lookupName or  *)
(* "*" gets exactly one CRITICAL violation, whatever canContain lists.     *)
(* Stated for the nodes the engine scans as components, the reading most   *)
(* favourable to the engine.                                               *)
(***************************************************************************)
C4_ForbiddenChildGetsOneCritical ==
    \A c \in 1..NumCalls :
        Returned(c) =>
            \A k \in 2..calls[c].tree.n :
                LET t == calls[c].tree
                IN  (isComponent(NameOf(t, k))
                     /\ Forbids(lookupName(NameOf(t, t.parent[k])), lookupName(NameOf(t, k))))
                    => CountFor(Report(c), k, "CRITICAL") = 1

(***************************************************************************)
(* C5: a non-governed node contributes no violation and no component       *)
(* entry and is a transparent container: violations and components refer   *)
(* to governed nodes only, every governed node at any depth is scanned     *)
(* (once, in pre-order), and a nesting violation names the direct parent.  *)
(***************************************************************************)
C5_OnlyGovernedScanned ==
    \A c \in 1..NumCalls :
        Returned(c) =>
            LET t == calls[c].tree
                r == Report(c)
            IN  /\ \A i \in 1..Len(r.violations) : Governed(NameOf(t, r.violations[i].node))
                /\ \A i \in 1..Len(r.components) : Governed(NameOf(t, r.components[i].id))
                /\ \A i \in 1..Len(r.violations) :
                      r.violations[i].rule = "Composition" =>
                          r.violations[i].message[3] = parentLookup(NameOf(t, t.parent[r.violations[i].node]))

C5_EveryGovernedScanned ==
    \A c \in 1..NumCalls :
        Returned(c) =>
            \A k \in 1..calls[c].tree.n :
                Governed(NameOf(calls[c].tree, k)) => Cardinality(EntriesOf(Report(c), k)) = 1

C5_NonGovernedTransparent == C5_OnlyGovernedScanned /\ C5_EveryGovernedScanned

(***************************************************************************)
(* C6: a component entry is VERIFIED exactly when no violation was         *)
(* recorded for its node, UNKNOWN exactly when the node has no Registry    *)
(* rule, VIOLATION exactly when the illegal-nesting check fired for it.    *)
(***************************************************************************)
C6_StatusMatchesViolations ==
    \A c \in 1..NumCalls :
        Returned(c) =>
            LET t == calls[c].tree
                r == Report(c)
            IN  \A i \in 1..Len(r.components) :
                    LET k == r.components[i].id
                    IN  /\ r.components[i].status = "VERIFIED" <=> ViolationsOf(r, k) = {}
                        /\ r.components[i].status = "UNKNOWN" <=> ~Registered(NameOf(t, k))
                        /\ r.components[i].status = "VIOLATION" <=>
                             (\E j \in ViolationsOf(r, k) : r.violations[j].rule = "Composition")

(***************************************************************************)
(* C7: every governed node without a Registry entry gets exactly one       *)
(* CRITICAL violation and a fragment proposal with canContain = ["*"] if   *)
(* it has a child and [] otherwise, cannotContain = [], and one draft      *)
(* property {type: string, required: false} per observed property key.     *)
(***************************************************************************)
C7_UnregisteredGetsCriticalAndFragment ==
    \A c \in 1..NumCalls :
        Returned(c) =>
            LET t == calls[c].tree
                r == Report(c)
            IN  \A k \in 1..t.n :
                    (Governed(NameOf(t, k)) /\ ~Registered(NameOf(t, k))) =>
                        /\ CountFor(r, k, "CRITICAL") = 1
                        /\ \E i \in EntriesOf(r, k) :
                              LET f == r.components[i].fragment
                              IN  /\ f.canContain = (IF \E j \in 1..t.n : t.parent[j] = k THEN << STAR >> ELSE << >>)
                                  /\ f.cannotContain = << >>
                                  /\ {f.props[j] : j \in 1..Len(f.props)}
                                       = {toLowerCase(SplitFirst(CpOf(t, k).keys[j], "#")) : j \in 1..Len(CpOf(t, k).keys)}
                                  /\ f.propType = "string" /\ f.propRequired = FALSE

CleanTree(t) ==
    \A k \in 1..t.n :
        Governed(NameOf(t, k)) =>
            /\ Registered(NameOf(t, k))
            /\ UnknownKeys(t, k) = {}
            /\ (t.parent[k] # 0 =>
                  ~Forbids(lookupName(NameOf(t, t.parent[k])), lookupName(NameOf(t, k))))

C9_CleanTreeScores100 ==
    \A c \in 1..NumCalls :
        (Returned(c) /\ CleanTree(calls[c].tree)) =>
            /\ Report(c).violations = << >>
            /\ Report(c).score = 100
            /\ Report(c).valid
            /\ \A i \in 1..Len(Report(c).components) : Report(c).components[i].status = "VERIFIED"

\* the end-to-end scenario: a prefixed button without properties, whose rule
\* marks one as required, inside a layer that is not a component
C9_Witness ==
    /\ Returned(1)
    /\ CleanTree(calls[1].tree)
    /\ \E k \in 2..calls[1].tree.n :
          LET t == calls[1].tree
          IN  /\ startsWith(cleanName(NameOf(t, k)), APP)
              /\ ~CpOf(t, k).hasProps
              /\ \E j \in 1..Len(registry[lookupName(NameOf(t, k))].props) :
                    registry[lookupName(NameOf(t, k))].props[j].required
              /\ ~Governed(NameOf(t, t.parent[k]))
              /\ Report(1).components # << >>

(***************************************************************************)
(***************************************************************************)
(* The healing pipeline: parseGeminiResponse (src/design-validator.js)     *)
(*                                                                         *)
(* An artifact's content is a sequence of tokens (one per line or tag), a  *)
(* token being a record with a kind.  A substring or regular-expression    *)
(* test of the source becomes a test on the tokens that can carry the      *)
(* text.                                                                   *)
(***************************************************************************)
(***************************************************************************)

\* ---- TypeScript tokens
TsImport(names, from) == [kind |-> "import", names |-> names, from |-> from]
TsDecorator == [kind |-> "decorator"]                       \* @Component({
TsTemplateUrl(form) == [kind |-> "templateUrl", form |-> form]
                                                            \* form "ok": templateUrl: './x.html',
                                                            \* "comma": templateUrl,   "brace": templateUrl }
TsStyleUrl(plural) == [kind |-> "styleUrl", plural |-> plural]
                                                            \* styleUrl: './x.scss' | styleUrls: ['./x.scss']
TsImportsArray(mods) == [kind |-> "importsArray", mods |-> mods]   \* imports: [A, B],
TsStandalone == [kind |-> "standalone"]                     \* standalone: true,
TsDecoratorEnd == [kind |-> "decoratorEnd"]                 \* })
TsClass(name) == [kind |-> "class", name |-> name]          \* export class Name {
TsInputDecl(name, type, def) == [kind |-> "inputDecl", name |-> name, type |-> type, def |-> def]
                                                            \*   @Input() name: type = def;
TsLine(text) == [kind |-> "line", text |-> text]            \* any other line
TsClose == [kind |-> "close"]                               \* }
Ws == [kind |-> "ws"]                                       \* whitespace between tokens

\* ---- markup tokens
HtmlOpen(tag, cls, label, click, disabled, variant) ==
    [kind |-> "open", tag |-> tag, cls |-> cls, label |-> label, click |-> click,
     disabled |-> disabled, variant |-> variant]
HtmlClose(tag) == [kind |-> "closeTag", tag |-> tag]
HtmlText(text) == [kind |-> "text", text |-> text]

\* ---- style tokens
ScssRule(cls, suffix) == [kind |-> "rule", cls |-> cls, suffix |-> suffix]
                                                            \* .cls {   .cls:hover {   .cls, x {
ScssHost == [kind |-> "host"]                               \* :host {
ScssDecl(text) == [kind |-> "decl", text |-> text]

\* ---- raw generator text: a sequence of blocks
\*   fenced  : [fence]tag <content> [fence]
\*   trailer : [fence] <content> [fence] followed on the same line by a language word
\*   comment : a region opened by a comment naming a file,
\*             // Name.component.ext   <!-- Name.component.ext   /* Name.component.ext
\*             (stories: the comment reads Name.stories.component.ext)
Fenced(tag, content) == [kind |-> "fenced", tag |-> tag, content |-> content]
Trailer(word, content) == [kind |-> "trailer", tag |-> word, content |-> content]
CommentRegion(style, base, stories, ext, content) ==
    [kind |-> "comment", style |-> style, base |-> base, stories |-> stories, ext |-> ext, content |-> content]

\* ---- component names of a request: the name as text and as characters,
\* with the result of toPascalCase
CompNameTable ==
    << [name |-> "DeleteButton", chars |-> <<"D","e","l","e","t","e","B","u","t","t","o","n">>,
        lower |-> "deletebutton", pascal |-> "DeleteButton"],
       [name |-> "InfoCard", chars |-> <<"I","n","f","o","C","a","r","d">>,
        lower |-> "infocard", pascal |-> "InfoCard"],
       [name |-> "avatar", chars |-> <<"a","v","a","t","a","r">>,
        lower |-> "avatar", pascal |-> "Avatar"] >>

\* the words the visual decision looks for in a file name
KeywordChars ==
    [danger |-> <<"d","a","n","g","e","r">>, delete |-> <<"d","e","l","e","t","e">>,
     error |-> <<"e","r","r","o","r">>, success |-> <<"s","u","c","c","e","s","s">>,
     confirm |-> <<"c","o","n","f","i","r","m">>, warn |-> <<"w","a","r","n">>,
     info |-> <<"i","n","f","o">>, button |-> <<"b","u","t","t","o","n">>,
     btn |-> <<"b","t","n">>, badge |-> <<"b","a","d","g","e">>, chip |-> <<"c","h","i","p">>,
     card |-> <<"c","a","r","d">>, panel |-> <<"p","a","n","e","l">>,
     container |-> <<"c","o","n","t","a","i","n","e","r">>, modal |-> <<"m","o","d","a","l">>,
     dialog |-> <<"d","i","a","l","o","g">>, icon |-> <<"i","c","o","n">>, svg |-> <<"s","v","g">>,
     input |-> <<"i","n","p","u","t">>, field |-> <<"f","i","e","l","d">>, text |-> <<"t","e","x","t">>]

\* String.prototype.includes on characters
includesText(s, sub) ==
    \E i \in 0..(Len(s) - Len(sub)) : SubSeq(s, i + 1, i + Len(sub)) = sub

\* the characters of '<name lowercased>.component.ts'
ComponentSuffix == <<".","c","o","m","p","o","n","e","n","t",".","t","s">>
fileNameChars(nameIdx) == toLowerCase(CompNameTable[nameIdx].chars) \o ComponentSuffix

\* the keywords a file name contains
KeywordsIn(chars) == {w \in DOMAIN KeywordChars : includesText(chars, KeywordChars[w])}

\* getFileExtension
getFileExtension(language) ==
    CASE language = "typescript" -> "ts"
      [] language = "html" -> "html"
      [] language = "scss" -> "scss"
      [] language = "css" -> "css"
      [] OTHER -> "txt"

\* ---- candidate artifact contents
TsGood ==
    << TsImport(<<"Component">>, "@angular/core"), TsDecorator, TsTemplateUrl("ok"),
       TsStyleUrl(FALSE), TsDecoratorEnd, TsClass("XComponent"), TsClose >>
TsPrime ==
    << TsImport(<<"Component">>, "@angular/core"), TsImport(<<"ButtonModule">>, "primeng/button"),
       TsDecorator, TsStandalone, TsImportsArray(<<"ButtonModule", "CommonModule">>),
       TsDecoratorEnd, TsClass("XComponent"), TsClose >>
TsBroken ==
    << TsImport(<<"Component">>, "@angular/core"), TsDecorator, TsTemplateUrl("comma"),
       TsDecoratorEnd, TsClass("XComponent"), TsClose >>
TsBare == << TsClass("XComponent"), TsClose >>
TsNoClass == << TsImport(<<"Component">>, "@angular/core"), TsDecorator, TsTemplateUrl("brace") >>
TsWithInput ==
    << TsImport(<<"Component", "Input">>, "@angular/core"), TsDecorator, TsDecoratorEnd,
       TsClass("XComponent"), TsInputDecl("label", "string", ""), TsClose >>
TsMaterial ==
    << TsImport(<<"Component">>, "@angular/core"), TsImport(<<"MatInputModule">>, "@angular/material/input"),
       TsDecorator, TsStandalone, TsImportsArray(<<"MatInputModule">>), TsDecoratorEnd,
       TsClass("XComponent"), TsClose >>
TsOnlyPrime == << TsImport(<<"ButtonModule">>, "primeng/button") >>
TsStory ==
    << TsImport(<<"Meta", "StoryObj">>, "@storybook/angular"), TsLine("const meta: Meta<X> = {};"),
       TsLine("export default meta;") >>

HtmlEmptyButton == << HtmlOpen("button", "btn", "", "", "", ""), HtmlClose("button") >>
HtmlSpacedButton ==
    << HtmlOpen("div", "", "", "", "", ""), HtmlOpen("button", "btn", "", "", "", ""), Ws,
       HtmlClose("button"), HtmlClose("div") >>
HtmlFilledButton == << HtmlOpen("button", "btn", "", "", "", ""), HtmlText("Go"), HtmlClose("button") >>
HtmlPrime ==
    << HtmlOpen("p-button", "", "Save", "save()", "busy", "secondary"), HtmlClose("p-button"),
       HtmlOpen("p-card", "", "", "", "", ""), HtmlClose("p-card") >>
HtmlTextButton ==
    << HtmlOpen("p-button", "", "Skip", "skip()", "", "text"), HtmlClose("p-button"),
       HtmlOpen("p-button", "", "Go", "emit('go')", "off", ""), HtmlClose("p-button"),
       HtmlOpen("p-inputText", "", "", "", "", ""), HtmlClose("p-inputText") >>
HtmlShort == << HtmlOpen("b", "", "", "", "", "") >>
HtmlTwoEmpty ==
    << HtmlOpen("button", "btn", "", "go()", "", ""), HtmlClose("button"), HtmlOpen("span", "", "", "", "", ""),
       HtmlClose("span"), HtmlOpen("p-button", "", "", "", "", "ghost"), Ws, Ws, HtmlClose("p-button") >>

ScssCustom == << ScssRule("my-button", ""), ScssDecl("color: red;"), TsClose >>
ScssBtn == << ScssHost, TsClose, ScssRule("btn", ""), ScssDecl("color: red;"), TsClose >>
ScssTwo ==
    << ScssRule("primary", ""), ScssDecl("color: red;"), TsClose,
       ScssRule("secondary", ":hover"), ScssDecl("color: blue;"), TsClose >>
ScssPair ==
    << ScssRule("cta", ""), ScssDecl("color: red;"), TsClose,
       ScssRule("wrap", ""), ScssDecl("color: blue;"), TsClose >>

\* ---- raw generator texts
ResponseTable ==
    << << Fenced("typescript", TsGood), Fenced("html", HtmlEmptyButton), Fenced("scss", ScssCustom) >>,
       << Fenced("typescript", TsPrime), Fenced("html", HtmlPrime), Fenced("scss", ScssBtn) >>,
       << Fenced("typescript", TsBroken), Fenced("html", HtmlFilledButton), Fenced("scss", ScssTwo),
          Fenced("typescript", TsStory) >>,
       << Fenced("typescript", TsStory), Fenced("typescript", TsGood), Fenced("html", HtmlSpacedButton),
          Fenced("scss", ScssCustom) >>,
       << Fenced("typescript", TsGood), Fenced("scss", ScssCustom) >>,
       << Fenced("html", HtmlEmptyButton), Fenced("scss", ScssCustom) >>,
       << Fenced("typescript", TsWithInput), Fenced("html", HtmlSpacedButton) >>,
       << Fenced("typescript", TsGood), Fenced("html", << >>), Fenced("scss", ScssCustom) >>,
       << Fenced("typescript", TsBare), Fenced("html", HtmlShort), Fenced("scss", << Ws >>) >>,
       << Fenced("typescript", TsNoClass), Fenced("html", HtmlEmptyButton), Fenced("scss", ScssBtn) >>,
       << Trailer("typescript", TsGood), CommentRegion("<!--", "DeleteButton", FALSE, "html", HtmlEmptyButton),
          Trailer("scss", ScssCustom) >>,
       << CommentRegion("//", "InfoCard", FALSE, "ts", TsWithInput),
          CommentRegion("<!--", "InfoCard", FALSE, "html", HtmlFilledButton),
          Fenced("css", ScssBtn),
          CommentRegion("/*", "InfoCard", FALSE, "scss", ScssCustom),
          CommentRegion("//", "InfoCard", TRUE, "ts", TsStory) >>,
       << Fenced("typescript", TsOnlyPrime), Fenced("html", HtmlFilledButton), Fenced("scss", ScssBtn) >>,
       << Fenced("typescript", TsGood), Fenced("html", HtmlTwoEmpty), Fenced("scss", ScssTwo) >>,
       << Fenced("typescript", TsGood), Fenced("html", HtmlFilledButton), Fenced("scss", ScssPair) >>,
       << Fenced("typescript", TsPrime), Fenced("html", HtmlTextButton), Fenced("scss", ScssBtn) >>,
       << Fenced("typescript", TsMaterial), Fenced("html", HtmlFilledButton), Fenced("scss", ScssBtn) >>,
       << CommentRegion("//", "avatar", FALSE, "ts", TsGood),
          CommentRegion("<!--", "avatar", FALSE, "html", HtmlEmptyButton),
          CommentRegion("/*", "avatar", FALSE, "scss", ScssCustom) >>,
       << >> >>

(***************************************************************************)
(* Text helpers on token sequences                                         *)
(***************************************************************************)
AttrLen(prefixLen, value) == IF value = "" THEN 0 ELSE prefixLen + Len(value) + 1

\* number of characters a token stands for
TokLen(tok) ==
    CASE tok.kind = "open" ->
            1 + Len(tok.tag) + AttrLen(8, tok.cls) + AttrLen(8, tok.label) + AttrLen(10, tok.click)
              + AttrLen(13, tok.disabled) + AttrLen(11, tok.variant) + 1
      [] tok.kind = "closeTag" -> 3 + Len(tok.tag)
      [] tok.kind \in {"text", "line", "decl"} -> Len(tok.text)
      [] tok.kind = "ws" -> 1
      [] tok.kind = "close" -> 1
      [] tok.kind = "class" -> 15 + Len(tok.name)
      [] tok.kind = "rule" -> 3 + Len(tok.cls) + Len(tok.suffix)
      [] tok.kind = "inputDecl" -> 14 + Len(tok.name) + Len(tok.type) + Len(tok.def)
      [] OTHER -> 12

\* content.length
RECURSIVE CharLen(_)
CharLen(content) == IF content = << >> THEN 0 ELSE TokLen(Head(content)) + CharLen(Tail(content))

\* String.prototype.trim on a content
trimContent(content) ==
    IF \A i \in 1..Len(content) : content[i].kind = "ws"
    THEN << >>
    ELSE LET lo == CHOOSE k \in 1..Len(content) : content[k].kind # "ws" /\ \A j \in 1..(k-1) : content[j].kind = "ws"
             hi == CHOOSE k \in 1..Len(content) : content[k].kind # "ws" /\ \A j \in (k+1)..Len(content) : content[j].kind = "ws"
         IN  SubSeq(content, lo, hi)

\* first index of seq satisfying Test, 0 if none
FirstIndex(seq, Test(_)) ==
    IF \E i \in 1..Len(seq) : Test(seq[i])
    THEN CHOOSE i \in 1..Len(seq) : Test(seq[i]) /\ \A j \in 1..(i-1) : ~Test(seq[j])
    ELSE 0

RECURSIVE Flatten(_)
Flatten(seqs) == IF seqs = << >> THEN << >> ELSE Head(seqs) \o Flatten(Tail(seqs))

(***************************************************************************)
(* extractCodeBlock                                                        *)
(***************************************************************************)
FenceMark == "[fence]"      \* the three-backquote fence marker

\* the text of a block of the raw response, fence markers and comment lines included
BlockOpen(b) ==
    CASE b.kind = "fenced" -> << TsLine(FenceMark \o b.tag) >>
      [] b.kind = "trailer" -> << TsLine(FenceMark) >>
      [] OTHER -> << TsLine(b.style \o " " \o b.base \o (IF b.stories THEN ".stories" ELSE "")
                            \o ".component." \o b.ext) >>
BlockEnd(b) ==
    CASE b.kind = "fenced" -> << TsLine(FenceMark) >>
      [] b.kind = "trailer" -> << TsLine(FenceMark \o " " \o b.tag) >>
      [] OTHER -> << >>
BlockText(b) == BlockOpen(b) \o b.content \o BlockEnd(b)

HasFence(b) == b.kind \in {"fenced", "trailer"}

\* lower-cased form of a component name of the table
LowerOf(name) == (CHOOSE i \in DOMAIN CompNameTable : CompNameTable[i].name = name) 

\* primary pattern  [fence]<language>([\s\S]*?)[fence]
PrimaryMatch(response, language) ==
    LET j == FirstIndex(response, LAMBDA b : b.kind = "fenced" /\ b.tag = language)
    IN  [found |-> j # 0, content |-> IF j = 0 THEN << >> ELSE response[j].content]

\* first alternative  [fence]([\s\S]*?)[fence].*<language> : from the first fence of the
\* text up to the first closing fence that is followed, on its line, by the language
TrailerMatch(response, language) ==
    LET i0 == FirstIndex(response, HasFence)
        j == FirstIndex(response, LAMBDA b : b.kind = "trailer" /\ b.tag = language)
    IN  IF j = 0 THEN [found |-> FALSE, content |-> << >>]
        ELSE IF i0 = j THEN [found |-> TRUE, content |-> response[j].content]
        ELSE [found |-> TRUE,
              content |-> (IF response[i0].kind = "fenced" THEN << TsLine(response[i0].tag) >> ELSE << >>)
                          \o response[i0].content \o BlockEnd(response[i0])
                          \o Flatten([m \in 1..(j - i0 - 1) |-> BlockText(response[i0 + m])])
                          \o BlockOpen(response[j]) \o response[j].content]

\* alternatives 2-4  <comment> <componentName>.*\.component\.<ext>([\s\S]*?)(?=[fence]|$) :
\* from the comment line up to the next fence or the end of the text
CommentMatch(response, style, language, base, stories) ==
    LET Hit(b) == /\ b.kind = "comment" /\ b.style = style
                  /\ CompNameTable[LowerOf(b.base)].lower = CompNameTable[LowerOf(base)].lower
                  /\ (stories => b.stories)
                  /\ b.ext = getFileExtension(language)
        j == FirstIndex(response, Hit)
        Stop == {m \in (j+1)..Len(response) : HasFence(response[m])}
        last == IF Stop = {} THEN Len(response) ELSE (CHOOSE m \in Stop : \A q \in Stop : m <= q) - 1
    IN  IF j = 0 THEN [found |-> FALSE, content |-> << >>]
        ELSE [found |-> TRUE,
              content |-> response[j].content
                          \o Flatten([m \in 1..(last - j) |-> BlockText(response[j + m])])]

\* fixAngularSyntax: styleUrl: '...'  ->  styleUrls: ['...']
fixAngularSyntax(content) ==
    [i \in 1..Len(content) |->
        IF content[i].kind = "styleUrl" /\ ~content[i].plural THEN TsStyleUrl(TRUE) ELSE content[i]]

NullFile == [isNull |-> TRUE, fileName |-> "", content |-> << >>, language |-> "", size |-> 0]

File(fileName, content, language, size) ==
    [isNull |-> FALSE, fileName |-> fileName, content |-> content, language |-> language, size |-> size]

\* extractCodeBlock(response, language, base [+ '.stories']); found = FALSE: it throws
extractCodeBlock(response, language, base, stories) ==
    LET m0 == PrimaryMatch(response, language)
        m1 == TrailerMatch(response, language)
        m2 == CommentMatch(response, "//", language, base, stories)
        m3 == CommentMatch(response, "<!--", language, base, stories)
        m4 == CommentMatch(response, "/*", language, base, stories)
        m == IF m0.found THEN m0 ELSE IF m1.found THEN m1 ELSE IF m2.found THEN m2
             ELSE IF m3.found THEN m3 ELSE m4
        trimmed == trimContent(m.content)
        content == IF language = "typescript" /\ ~stories THEN fixAngularSyntax(trimmed) ELSE trimmed
        lower == CompNameTable[LowerOf(base)].lower
        fileName == IF stories THEN lower \o ".stories.ts"
                    ELSE lower \o ".component." \o getFileExtension(language)
    IN  [found |-> m.found,
         file |-> IF m.found THEN File(fileName, content, language, CharLen(content)) ELSE NullFile]

(***************************************************************************)
(* Inferred-input descriptors and design nodes of a request                *)
(***************************************************************************)
\* an inferred input; hasName / hasType = FALSE: the field is undefined;
\* alts: the members of the type split at '|', trimmed and unquoted;
\* defaultValue: hasDefault = FALSE when undefined or '', defQuoted when it starts with a quote
Input(name, lower, type, alts, hasDefault, defQuoted, defBody) ==
    [hasName |-> TRUE, name |-> name, lower |-> lower, hasType |-> TRUE, type |-> type,
     alts |-> alts, hasDefault |-> hasDefault, defQuoted |-> defQuoted, defBody |-> defBody]

InferredTable ==
    << [isNull |-> TRUE, inputs |-> << >>],
       [isNull |-> FALSE, inputs |-> << >>],
       [isNull |-> FALSE, inputs |-> << Input("label", "label", "string", <<"string">>, TRUE, FALSE, "Click") >>],
       [isNull |-> FALSE, inputs |-> << Input("size", "size", "'sm' | 'lg'", <<"sm", "lg">>, TRUE, TRUE, "sm"),
                                        Input("size", "size", "string", <<"string">>, FALSE, FALSE, ""),
                                        Input("Title", "title", "string", <<"string">>, FALSE, FALSE, ""),
                                        Input("disabled", "disabled", "boolean", <<"boolean">>, FALSE, FALSE, "") >>],
       [isNull |-> FALSE,
        inputs |-> << [Input("count", "count", "undefined", << >>, FALSE, FALSE, "") EXCEPT !.hasType = FALSE] >>],
       [isNull |-> FALSE,
        inputs |-> << [Input("undefined", "", "string", <<"string">>, FALSE, FALSE, "") EXCEPT !.hasName = FALSE] >>] >>

\* inferredInputs?.inputs as an array ([] when undefined)
InputsOf(inf) == inf.inputs

\* a fill entry; colour channels in thousandths of the range [0,1]
Fill(type, visible, hasColor, r, g, b) ==
    [type |-> type, visible |-> visible, hasColor |-> hasColor, r |-> r, g |-> g, b |-> b]

NoNode == [isNull |-> TRUE, n |-> 0, parent |-> << >>, fills |-> << >>, type |-> << >>,
           fontSize |-> << >>, fontWeight |-> << >>, hasChildren |-> FALSE,
           hasCornerRadius |-> FALSE, cornerRadius |-> 0, padding |-> <<0, 0, 0, 0>>]

\* design nodes (figmaNodeData): node 1 is the root; padding is <<top, right, bottom, left>>;
\* fontSize / fontWeight 0: not set
FigmaTable ==
    << NoNode,
       [isNull |-> FALSE, n |-> 2, parent |-> <<0, 1>>,
        fills |-> << << Fill("SOLID", TRUE, TRUE, 1000, 0, 0) >>, << >> >>,
        type |-> <<"FRAME", "TEXT">>, fontSize |-> <<0, 14>>, fontWeight |-> <<0, 600>>,
        hasChildren |-> TRUE, hasCornerRadius |-> TRUE, cornerRadius |-> 4, padding |-> <<8, 16, 8, 16>>],
       [isNull |-> FALSE, n |-> 3, parent |-> <<0, 1, 1>>,
        fills |-> << << Fill("IMAGE", TRUE, TRUE, 0, 0, 0) >>,
                     << Fill("SOLID", FALSE, TRUE, 0, 0, 1000) >>,
                     << Fill("SOLID", TRUE, TRUE, 1000, 1000, 1000) >> >>,
        type |-> <<"GROUP", "RECTANGLE", "RECTANGLE">>, fontSize |-> <<0, 0, 0>>, fontWeight |-> <<0, 0, 0>>,
        hasChildren |-> TRUE, hasCornerRadius |-> FALSE, cornerRadius |-> 0, padding |-> <<0, 0, 0, 0>>] >>

figmaChildren(nd, k) == SortedSeq({j \in 1..nd.n : nd.parent[j] = k})

(***************************************************************************)
(* Visual decision                                                         *)
(***************************************************************************)
\* fill.type === 'SOLID' && fill.visible !== false && fill.color
ValidFill(f) == f.type = "SOLID" /\ f.visible /\ f.hasColor

RECURSIVE findFillNode_childrenFirst(_, _)
findFillNode_childrenFirst(nd, k) ==
    LET own == FirstIndex(nd.fills[k], ValidFill)
        ch == figmaChildren(nd, k)
        Sub[i \in 0..Len(ch)] ==
            IF i = 0 THEN [found |-> FALSE, node |-> 0, fill |-> Fill("", FALSE, FALSE, 0, 0, 0)]
            ELSE IF Sub[i-1].found THEN Sub[i-1] ELSE findFillNode_childrenFirst(nd, ch[i])
    IN  IF Sub[Len(ch)].found THEN Sub[Len(ch)]
        ELSE IF own # 0 THEN [found |-> TRUE, node |-> k, fill |-> nd.fills[k][own]]
        ELSE Sub[Len(ch)]

\* findFillNode: the first valid fill of the first node, in pre-order, that has one
RECURSIVE findFillNode(_, _)
findFillNode(nd, k) ==
    LET own == FirstIndex(nd.fills[k], ValidFill)
        ch == figmaChildren(nd, k)
        Sub[i \in 0..Len(ch)] ==
            IF i = 0 THEN [found |-> FALSE, node |-> 0, fill |-> Fill("", FALSE, FALSE, 0, 0, 0)]
            ELSE IF Sub[i-1].found THEN Sub[i-1] ELSE findFillNode(nd, ch[i])
    IN  IF own # 0 THEN [found |-> TRUE, node |-> k, fill |-> nd.fills[k][own]]
        ELSE Sub[Len(ch)]

\* findTextNode: the first node of type TEXT in pre-order, 0 if none
RECURSIVE findTextNode(_, _)
findTextNode(nd, k) ==
    LET ch == figmaChildren(nd, k)
        Sub[i \in 0..Len(ch)] ==
            IF i = 0 THEN 0 ELSE IF Sub[i-1] # 0 THEN Sub[i-1] ELSE findTextNode(nd, ch[i])
    IN  IF nd.type[k] = "TEXT" THEN k ELSE Sub[Len(ch)]

HexDigits == <<"0", "1", "2", "3", "4", "5", "6", "7", "8", "9", "A", "B", "C", "D", "E", "F">>

\* Math.round(c * 255) for a channel c given in thousandths, as two upper-case hex digits
toHex(c) ==
    LET v == (2 * c * 255 + 1000) \div 2000
    IN  HexDigits[(v \div 16) + 1] \o HexDigits[(v % 16) + 1]

rgbToHex(r, g, b) == "#" \o toHex(r) \o toHex(g) \o toHex(b)

getContrastColor_atLeast(r, g, b) ==
    IF 299 * r + 587 * g + 114 * b >= 500000 THEN "#000000" ELSE "#FFFFFF"

\* luminance (0.299 r + 0.587 g + 0.114 b) > 0.5, channels in thousandths
getContrastColor(r, g, b) ==
    IF 299 * r + 587 * g + 114 * b > 500000 THEN "#000000" ELSE "#FFFFFF"

px(n) == ToString(n) \o "px"

\* visualGatekeeper, steps 1-3 and the fallbacks: the style values to enforce
\* (keywords: the keywords contained in the structural artifact's file name)
VisualStyles(nd, keywords) ==
    LET src == IF nd.isNull THEN [found |-> FALSE] ELSE findFillNode(nd, 1)
        hasColor == src.found
        textNode == IF ~nd.isNull /\ nd.hasChildren THEN findTextNode(nd, 1) ELSE 0
        fallback ==
            IF keywords \cap {"danger", "delete", "error"} # {} THEN <<"#DC2626", "#FFFFFF">>
            ELSE IF keywords \cap {"success", "confirm"} # {} THEN <<"#16A34A", "#FFFFFF">>
            ELSE IF "warn" \in keywords THEN <<"#CA8A04", "#000000">>
            ELSE IF "info" \in keywords THEN <<"#2563EB", "#FFFFFF">>
            ELSE <<"#333333", "#FFFFFF">>
        anyPadding == ~nd.isNull /\ \E i \in 1..4 : nd.padding[i] > 0
    IN  [hexColor |-> IF hasColor THEN rgbToHex(src.fill.r, src.fill.g, src.fill.b) ELSE fallback[1],
         contrastColor |-> IF hasColor THEN getContrastColor(src.fill.r, src.fill.g, src.fill.b) ELSE fallback[2],
         borderRadius |-> IF ~nd.isNull /\ nd.hasCornerRadius THEN px(nd.cornerRadius) ELSE "8px",
         padding |-> IF anyPadding
                     THEN px(nd.padding[1]) \o " " \o px(nd.padding[2]) \o " " \o px(nd.padding[3])
                          \o " " \o px(nd.padding[4])
                     ELSE "12px 24px",
         fontSize |-> IF textNode # 0 /\ nd.fontSize[textNode] # 0 THEN px(nd.fontSize[textNode]) ELSE "16px",
         fontWeight |-> IF textNode # 0 /\ nd.fontWeight[textNode] # 0
                        THEN ToString(nd.fontWeight[textNode]) ELSE ""]

\* step 4: the strategy chosen from the keywords of the file name
Strategy(keywords) ==
    IF keywords \cap {"button", "btn", "badge", "chip"} # {} THEN "button"
    ELSE IF keywords \cap {"card", "panel", "container", "modal", "dialog"} # {} THEN "card"
    ELSE IF keywords \cap {"icon", "svg"} # {} THEN "icon"
    ELSE IF keywords \cap {"input", "field", "text"} # {} THEN "input"
    ELSE "generic"

Important(prop, value) == prop \o ": " \o value \o " !important;"

\* the override block appended to the style artifact
OverrideBlock(styles, strategy) ==
    [kind |-> "override", strategy |-> strategy,
     selectors |->
        CASE strategy = "button" -> ":host, button, .btn, .p-button, .badge, .chip"
          [] strategy = "card" -> ":host, .card, .panel, .container, .modal, .dialog"
          [] strategy = "icon" -> ":host, i, svg, .icon"
          [] strategy = "input" -> ":host, input, .input-field, textarea"
          [] OTHER -> ":host",
     rules |->
        CASE strategy = "button" ->
                << Important("background-color", styles.hexColor), Important("border-color", styles.hexColor),
                   Important("color", styles.contrastColor), Important("border-radius", styles.borderRadius),
                   Important("padding", styles.padding), Important("font-size", styles.fontSize) >>
                \o (IF styles.fontWeight # "" THEN << Important("font-weight", styles.fontWeight) >> ELSE << >>)
                \o << Important("display", "inline-flex"), Important("align-items", "center"),
                      Important("justify-content", "center"), Important("line-height", "1.5") >>
          [] strategy = "card" ->
                << Important("background-color", styles.hexColor), Important("border-radius", styles.borderRadius),
                   Important("padding", styles.padding), Important("display", "block"),
                   Important("box-shadow", "0 4px 6px -1px rgba(0, 0, 0, 0.1), 0 2px 4px -1px rgba(0, 0, 0, 0.06)") >>
          [] strategy = "icon" ->
                << Important("color", styles.hexColor), Important("fill", styles.hexColor),
                   Important("display", "inline-block") >>
          [] strategy = "input" ->
                << Important("border", "1px solid " \o styles.hexColor), Important("border-radius", styles.borderRadius),
                   Important("padding", styles.padding), Important("font-size", styles.fontSize),
                   Important("background-color", "#ffffff"), Important("color", "#333333") >>
          [] OTHER ->
                << Important("background-color", styles.hexColor), Important("border-radius", styles.borderRadius) >>,
     boxSizing |-> Important("box-sizing", "border-box")]

\* visualGatekeeper: the style content with the override block appended
visualGatekeeper(scssContent, nd, nameChars) ==
    scssContent \o << OverrideBlock(VisualStyles(nd, KeywordsIn(nameChars)),
                                    Strategy(KeywordsIn(toLowerCase(nameChars)))) >>

(***************************************************************************)
(* templateUrl repair                                                      *)
(***************************************************************************)
TsTemplateUrlAt(lower) == [kind |-> "templateUrl", form |-> "ok", path |-> "./" \o lower \o ".component.html"]

\* content.includes('templateUrl,') || content.match(/templateUrl\s*}/)
HasBrokenTemplateUrl(content) ==
    \E i \in 1..Len(content) : content[i].kind = "templateUrl" /\ content[i].form \in {"comma", "brace"}

fixTemplateUrl(content, lower) ==
    Flatten([i \in 1..Len(content) |->
        IF content[i].kind = "templateUrl" /\ content[i].form = "comma" THEN << TsTemplateUrlAt(lower) >>
        ELSE IF content[i].kind = "templateUrl" /\ content[i].form = "brace" THEN << TsTemplateUrlAt(lower), TsClose >>
        ELSE << content[i] >>])

(***************************************************************************)
(* sanitizeFrameworkCode                                                   *)
(***************************************************************************)
PrimeSources == {"primeng/button", "primeng/inputtext"}
PrimeModules == {"ButtonModule", "InputTextModule", "RippleModule", "StyleClassModule"}
PrimeTags == {"p-button", "p-inputText", "p-card"}

\* the tag with its leading 'p-' removed
StripPrime(tag) ==
    CASE tag = "p-button" -> "button"
      [] tag = "p-inputText" -> "inputText"
      [] tag = "p-card" -> "card"
      [] OTHER -> tag

\* tsCode.includes('primeng')   (no token of the vocabulary renders 'Module}')
TsHasPrime(content) == \E i \in 1..Len(content) : content[i].kind = "import" /\ content[i].from \in PrimeSources

sanitizeTs(content) ==
    IF ~TsHasPrime(content) THEN content
    ELSE LET kept == SelectSeq(content, LAMBDA tok : ~(tok.kind = "import" /\ tok.from \in PrimeSources))
         IN  [i \in 1..Len(kept) |->
                IF kept[i].kind = "import"
                THEN [kept[i] EXCEPT !.names = SelectSeq(@, LAMBDA m : m \notin PrimeModules)]
                ELSE IF kept[i].kind = "importsArray"
                THEN [kept[i] EXCEPT !.mods = SelectSeq(@, LAMBDA m : m \notin PrimeModules)]
                ELSE kept[i]]

\* htmlCode.includes('<p-')   (no token of the vocabulary carries a pButton attribute)
HtmlHasPrime(content) == \E i \in 1..Len(content) : content[i].kind = "open" /\ content[i].tag \in PrimeTags

\* class chosen for a converted p-button from the words of its attributes
btnClass(tok) ==
    IF tok.variant = "secondary" THEN "btn btn-secondary"
    ELSE IF tok.variant \in {"ghost", "text"} THEN "btn btn-ghost"
    ELSE "btn btn-primary"

\* the capture ([^'"]+) of the attribute patterns: the value up to its first
\* quote character
UpToQuote(value) ==
    CASE value = "emit('go')" -> "emit("
      [] OTHER -> value

sanitizeHtml(content) ==
    IF ~HtmlHasPrime(content) THEN content
    ELSE Flatten([i \in 1..Len(content) |->
            LET tok == content[i]
            IN  IF tok.kind = "open" /\ tok.tag = "p-button"
                THEN << HtmlOpen("button", btnClass(tok), "", UpToQuote(tok.click), UpToQuote(tok.disabled), "") >>
                     \o (IF tok.label # "" THEN << HtmlText(UpToQuote(tok.label)) >> ELSE << >>)
                ELSE IF tok.kind = "closeTag" /\ tok.tag = "p-button" THEN << HtmlClose("button") >>
                ELSE IF tok.kind = "open" /\ tok.tag = "p-inputText"
                THEN << [tok EXCEPT !.tag = "input", !.cls = "input-field"] >>
                ELSE IF tok.kind = "closeTag" /\ tok.tag = "p-inputText" THEN << >>
                ELSE IF tok.kind \in {"open", "closeTag"} THEN << [tok EXCEPT !.tag = StripPrime(@)] >>
                ELSE << tok >>])

(***************************************************************************)
(* normalizeSelectors                                                      *)
(***************************************************************************)
\* class attribute values that begin with 'btn'
BtnClasses == {"btn", "btn btn-primary", "btn btn-secondary", "btn btn-ghost"}

\* html.includes('class="btn')
HtmlUsesBtn(content) == \E i \in 1..Len(content) : content[i].kind = "open" /\ content[i].cls \in BtnClasses

\* scss.includes('.btn {') || scss.includes('.btn:') || scss.includes('.btn,')
ScssDefinesBtn(content) ==
    \E i \in 1..Len(content) :
        \/ content[i].kind = "rule" /\ content[i].cls = "btn"
        \/ content[i].kind = "override" /\ content[i].strategy = "button"

\* /^\.([a-z0-9-_]+)\s*\{/m : the first rule line made of one class selector
FirstCustomRule(content) == FirstIndex(content, LAMBDA tok : tok.kind = "rule" /\ tok.suffix = "")

normalizeSelectors(htmlContent, scssContent) ==
    LET m == FirstCustomRule(scssContent)
    IN  IF HtmlUsesBtn(htmlContent) /\ ~ScssDefinesBtn(scssContent) /\ m # 0 /\ scssContent[m].cls # "btn"
        THEN [i \in 1..Len(scssContent) |->
                IF scssContent[i].kind = "rule" /\ scssContent[i].cls = scssContent[m].cls
                THEN [scssContent[i] EXCEPT !.cls = "btn"]
                ELSE scssContent[i]]
        ELSE scssContent

(***************************************************************************)
(* healEmptyTags                                                           *)
(***************************************************************************)
TextNames == {"label", "text", "caption", "title", "content"}

IsTextInput(i) == i.hasName /\ i.lower \in TextNames

\* inputs.find(...) reads i.name.toLowerCase() of every input up to the first hit
healEmptyTagsThrows(inputs) ==
    LET hit == FirstIndex(inputs, IsTextInput)
        last == IF hit = 0 THEN Len(inputs) ELSE hit - 1
    IN  \E k \in 1..last : ~inputs[k].hasName

bindingVar_label(inputs) == "label"

bindingVar(inputs) ==
    LET hit == FirstIndex(inputs, IsTextInput)
    IN  IF hit = 0 THEN "label" ELSE inputs[hit].name

\* number of leading whitespace tokens
RECURSIVE LeadingWs(_)
LeadingWs(content) ==
    IF content # << >> /\ Head(content).kind = "ws" THEN 1 + LeadingWs(Tail(content)) ELSE 0

\* html.replace(/(<button[^>]*>)\s*(<\/button>)/gi, '$1{{ var }}$2')
RECURSIVE healButtons_anyButton(_, _)
healButtons_anyButton(content, var) ==
    IF content = << >> THEN << >>
    ELSE IF Head(content).kind = "open" /\ Head(content).tag = "button"
    THEN << Head(content), HtmlText("{{ " \o var \o " }}") >> \o healButtons_anyButton(Tail(content), var)
    ELSE << Head(content) >> \o healButtons_anyButton(Tail(content), var)

RECURSIVE healButtons(_, _)
healButtons(content, var) ==
    IF content = << >> THEN << >>
    ELSE LET rest == Tail(content)
             k == LeadingWs(rest)
         IN  IF /\ Head(content).kind = "open" /\ Head(content).tag = "button"
                /\ Len(rest) > k /\ rest[k + 1].kind = "closeTag" /\ rest[k + 1].tag = "button"
             THEN << Head(content), HtmlText("{{ " \o var \o " }}"), rest[k + 1] >>
                  \o healButtons(SubSeq(rest, k + 2, Len(rest)), var)
             ELSE << Head(content) >> \o healButtons(rest, var)

healEmptyTags(htmlContent, inputs) == healButtons(htmlContent, bindingVar(inputs))

(***************************************************************************)
(* validateAndHealComponent, injectInferredInputs                          *)
(***************************************************************************)
\* names of the vocabulary that contain the word 'Input'
InputWords == {"Input", "InputTextModule", "MatInputModule"}

\* tsCode.includes('@Input')
HasInputDecorator(content) == \E i \in 1..Len(content) : content[i].kind = "inputDecl"

\* modifiedCode.includes('Input')
HasInputWord(content) ==
    \E i \in 1..Len(content) :
        \/ content[i].kind = "inputDecl"
        \/ content[i].kind = "import" /\ \E k \in 1..Len(content[i].names) : content[i].names[k] \in InputWords
        \/ content[i].kind = "importsArray" /\ \E k \in 1..Len(content[i].mods) : content[i].mods[k] \in InputWords

\* modifiedCode.match(/import\s*{[^}]*Input[^}]*}\s*from/)
HasInputImport(content) ==
    \E i \in 1..Len(content) :
        content[i].kind = "import" /\ \E k \in 1..Len(content[i].names) : content[i].names[k] \in InputWords

IsCoreImport(tok) == tok.kind = "import" /\ tok.from = "@angular/core"

\* the first part of injectInferredInputs: make sure Input is imported
ensureInputImport(content) ==
    LET c == FirstIndex(content, IsCoreImport)
    IN  IF ~HasInputWord(content)
        THEN IF c # 0
             THEN SubSeq(content, 1, c) \o << TsImport(<<"Input">>, "@angular/core") >>
                  \o SubSeq(content, c + 1, Len(content))
             ELSE << TsImport(<<"Input">>, "@angular/core") >> \o content
        ELSE IF ~HasInputImport(content) /\ c # 0
        THEN [content EXCEPT ![c].names = @ \o <<"Input">>]
        ELSE content

\* one '@Input() name: type;' line per inferred input (input.default is never set by the inference)
inputFields(inputs) == [i \in 1..Len(inputs) |-> TsInputDecl(inputs[i].name, inputs[i].type, "")]

injectInferredInputs(content, inputs) ==
    LET code == ensureInputImport(content)
        k == FirstIndex(code, LAMBDA tok : tok.kind = "class")
    IN  IF inputs = << >> THEN content
        ELSE IF k = 0 THEN code
        ELSE SubSeq(code, 1, k) \o << TsLine("// Stage 2: Injected Inputs") >> \o inputFields(inputs)
             \o SubSeq(code, k + 1, Len(code))

\* inputs: the inferred inputs, hasInputs = FALSE when the argument is undefined
validateAndHealComponent(content, hasInputs, inputs) ==
    IF ~hasInputs \/ inputs = << >> THEN content
    ELSE IF ~HasInputDecorator(content) THEN injectInferredInputs(content, inputs)
    ELSE content

(***************************************************************************)
(* validateAndHealStory                                                    *)
(***************************************************************************)
\* existingStory.content.includes('Meta')
HasMeta(content) ==
    \E i \in 1..Len(content) :
        \/ content[i].kind = "import" /\ \E k \in 1..Len(content[i].names) : content[i].names[k] = "Meta"
        \/ content[i].kind = "line" /\ content[i].text = "const meta: Meta<X> = {};"
        \/ content[i].kind = "story"

uniqueInputs_all(inputs, seen) == inputs

\* first occurrence of every input name, in order (Map keyed by input.name)
RECURSIVE uniqueInputs(_, _)
uniqueInputs(inputs, seen) ==
    IF inputs = << >> THEN << >>
    ELSE LET key == <<Head(inputs).hasName, Head(inputs).name>>
         IN  IF key \in seen THEN uniqueInputs(Tail(inputs), seen)
             ELSE << Head(inputs) >> \o uniqueInputs(Tail(inputs), seen \cup {key})

\* input.type.includes('|') on an input without type raises a TypeError
storyThrows(inputs) == \E i \in 1..Len(uniqueInputs(inputs, {})) : ~uniqueInputs(inputs, {})[i].hasType

argType(input) ==
    IF input.type = "boolean" THEN [name |-> input.name, control |-> "boolean", options |-> << >>]
    ELSE IF Len(input.alts) > 1 THEN [name |-> input.name, control |-> "select", options |-> input.alts]
    ELSE [name |-> input.name, control |-> "text", options |-> << >>]

defaultArg(input) ==
    LET quoted == IF input.hasDefault THEN input.defQuoted ELSE input.type # "boolean"
        body == IF input.hasDefault THEN input.defBody ELSE IF input.type = "boolean" THEN "false" ELSE ""
        def == IF quoted THEN "'" \o body \o "'" ELSE body
    IN  [name |-> input.name,
         value |-> IF input.type = "string" /\ ~quoted THEN "'" \o def \o "'" ELSE def]

\* tsCode.includes('standalone: true')
IsStandalone(content) == \E i \in 1..Len(content) : content[i].kind = "standalone"

StoryToken(pascalName, lower, moduleProp, argTypes, args) ==
    [kind |-> "story", component |-> pascalName, importFrom |-> "./" \o lower \o ".component",
     moduleProp |-> moduleProp, argTypes |-> argTypes, args |-> args]

\* existing: the extracted story or NullFile; the generated story is returned otherwise
validateAndHealStory(existing, tsContent, nameIdx, inputs) ==
    IF ~existing.isNull /\ existing.content # << >> /\ HasMeta(existing.content) THEN existing
    ELSE LET use == uniqueInputs(inputs, {})
             content == << StoryToken(CompNameTable[nameIdx].pascal \o "Component", CompNameTable[nameIdx].lower,
                                      IF IsStandalone(tsContent) THEN "imports" ELSE "declarations",
                                      [i \in 1..Len(use) |-> argType(use[i])],
                                      [i \in 1..Len(use) |-> defaultArg(use[i])]) >>
         IN  File(CompNameTable[nameIdx].lower \o ".stories.ts", content, "typescript", CharLen(content))

(***************************************************************************)
(* validateExtractedFiles                                                  *)
(***************************************************************************)
HasComponentDecorator(content) == \E i \in 1..Len(content) : content[i].kind = "decorator"
HasExportClass(content) == \E i \in 1..Len(content) : content[i].kind = "class"
HasImportWord(content) == \E i \in 1..Len(content) : content[i].kind \in {"import", "importsArray"}
HasAngularCore(content) == \E i \in 1..Len(content) : IsCoreImport(content[i])

validateTypeScriptComponent_lenient(content) ==
    (IF ~HasComponentDecorator(content) THEN << "TypeScript file missing @Component decorator" >> ELSE << >>)
    \o (IF ~HasImportWord(content) \/ ~HasAngularCore(content)
        THEN << "TypeScript file missing Angular imports" >> ELSE << >>)

validateTypeScriptComponent(content) ==
    (IF ~HasComponentDecorator(content) THEN << "TypeScript file missing @Component decorator" >> ELSE << >>)
    \o (IF ~HasExportClass(content) THEN << "TypeScript file missing export class" >> ELSE << >>)
    \o (IF ~HasImportWord(content) \/ ~HasAngularCore(content)
        THEN << "TypeScript file missing Angular imports" >> ELSE << >>)

validateHtmlTemplate(content) ==
    IF CharLen(content) < 10 THEN << "HTML template appears to be too short" >> ELSE << >>

FileTypes == <<"typescript", "html", "scss", "story">>

requiredFileErrors(f) ==
    Flatten([i \in 1..Len(FileTypes) |->
        IF f[FileTypes[i]].isNull THEN << "Missing " \o FileTypes[i] \o " file" >>
        ELSE IF f[FileTypes[i]].content = << >> THEN << "Empty " \o FileTypes[i] \o " file content" >>
        ELSE << >>])

\* the errors validateExtractedFiles appends
validateExtractedFiles(f) ==
    requiredFileErrors(f)
    \o (IF ~f.typescript.isNull /\ f.typescript.content # << >>
        THEN validateTypeScriptComponent(f.typescript.content) ELSE << >>)
    \o (IF ~f.html.isNull /\ f.html.content # << >> THEN validateHtmlTemplate(f.html.content) ELSE << >>)

(***************************************************************************)
(* parseGeminiResponse as a state machine                                  *)
(*                                                                         *)
(* req   : the arguments of the call (indices into the tables above)       *)
(* files : the bundle under construction                                   *)
(* hpc   : the position of the call in the function body                   *)
(* ran   : the stages of the body executed so far, in order; a stage is    *)
(*         the block of the body that carries its heading, its guard       *)
(*         included                                                        *)
(***************************************************************************)
healVars == <<req, files, hpc, ran, probe>>
vars == <<this, heap, calls, active, req, files, hpc, ran, probe,
          handlers, written, lastGeneratedFiles, generatorCalls>>

\* probe: the arguments and the result of one application of findFillNode, of
\* rgbToHex / getContrastColor or of the fallback of visualGatekeeper
NoProbe == [op |-> "none"]

NoReq == [response |-> 0, name |-> 0, inferred |-> 0, node |-> 0]

EmptyFiles == [typescript |-> NullFile, html |-> NullFile, scss |-> NullFile, story |-> NullFile,
               errors |-> << >>]

HealInit == req = NoReq /\ files = EmptyFiles /\ hpc = "idle" /\ ran = << >> /\ probe = NoProbe

response == ResponseTable[req.response]
componentLower == CompNameTable[req.name].lower
inferredInputs == InferredTable[req.inferred]
figmaNodeData == FigmaTable[req.node]

\* catch (error): the message is recorded and the bundle is returned as it stands
Raise_drops(f, message) ==
    /\ files' = [EmptyFiles EXCEPT !.errors = Append(f.errors, "Gatekeeper error: " \o message)]
    /\ hpc' = "returned"

Raise(f, message) ==
    /\ files' = [f EXCEPT !.errors = Append(@, "Gatekeeper error: " \o message)]
    /\ hpc' = "returned"

\* the call, with its arguments; files is the fresh bundle of lines 140-146
ParseStart ==
    /\ hpc = "idle"
    /\ \E r \in DOMAIN ResponseTable, n \in DOMAIN CompNameTable,
          i \in DOMAIN InferredTable, d \in DOMAIN FigmaTable :
            req' = [response |-> r, name |-> n, inferred |-> i, node |-> d]
    /\ files' = EmptyFiles
    /\ hpc' = "extract"
    /\ ran' = << >>
    /\ UNCHANGED probe

ParseExtract_continues ==
    /\ hpc = "extract"
    /\ LET ts == extractCodeBlock(response, "typescript", CompNameTable[req.name].name, FALSE)
           html == extractCodeBlock(response, "html", CompNameTable[req.name].name, FALSE)
           scss == extractCodeBlock(response, "scss", CompNameTable[req.name].name, FALSE)
       IN  /\ files' = [files EXCEPT !.typescript = ts.file, !.html = html.file, !.scss = scss.file,
                                     !.errors = IF ts.found /\ html.found /\ scss.found THEN @
                                                ELSE Append(@, "Gatekeeper error: No code block found")]
           /\ hpc' = "templateUrl"
    /\ UNCHANGED <<req, ran, probe>>

\* 1. the three extractions; the first failing one aborts the call
ParseExtract ==
    /\ hpc = "extract"
    /\ LET ts == extractCodeBlock(response, "typescript", CompNameTable[req.name].name, FALSE)
           html == extractCodeBlock(response, "html", CompNameTable[req.name].name, FALSE)
           scss == extractCodeBlock(response, "scss", CompNameTable[req.name].name, FALSE)
       IN  IF ~ts.found THEN Raise(files, "No typescript code block found")
           ELSE IF ~html.found
           THEN Raise([files EXCEPT !.typescript = ts.file], "No html code block found")
           ELSE IF ~scss.found
           THEN Raise([files EXCEPT !.typescript = ts.file, !.html = html.file], "No scss code block found")
           ELSE /\ files' = [files EXCEPT !.typescript = ts.file, !.html = html.file, !.scss = scss.file]
                /\ hpc' = "templateUrl"
    /\ UNCHANGED <<req, ran, probe>>

\* the templateUrl repair that follows the extraction
ParseFixTemplateUrl ==
    /\ hpc = "templateUrl"
    /\ files' = IF files.typescript.content # << >> /\ HasBrokenTemplateUrl(files.typescript.content)
                THEN [files EXCEPT !.typescript.content = fixTemplateUrl(@, componentLower)]
                ELSE files
    /\ hpc' = "story"
    /\ ran' = Append(ran, "repair")
    /\ UNCHANGED <<req, probe>>

\* the attempt to extract a story; a failure is ignored
ParseStory ==
    /\ hpc = "story"
    /\ LET st == extractCodeBlock(response, "typescript", CompNameTable[req.name].name, TRUE)
       IN  files' = IF st.found THEN [files EXCEPT !.story = st.file] ELSE files
    /\ hpc' = "sanitize"
    /\ UNCHANGED <<req, ran, probe>>

\* sanitizeFrameworkCode(files)
ParseSanitize ==
    /\ hpc = "sanitize"
    /\ files' = [files EXCEPT !.typescript.content = sanitizeTs(@), !.html.content = sanitizeHtml(@)]
    /\ hpc' = "visual"
    /\ ran' = Append(ran, "sanitize")
    /\ UNCHANGED <<req, probe>>

\* visualGatekeeper(files, figmaNodeData)
ParseVisual ==
    /\ hpc = "visual"
    /\ files' = [files EXCEPT !.scss.content = visualGatekeeper(@, figmaNodeData, fileNameChars(req.name))]
    /\ hpc' = "normalize"
    /\ ran' = Append(ran, "visual")
    /\ UNCHANGED <<req, probe>>

\* normalizeSelectors(files)
ParseNormalize ==
    /\ hpc = "normalize"
    /\ files' = [files EXCEPT !.scss.content = normalizeSelectors(files.html.content, @)]
    /\ hpc' = "content"
    /\ ran' = Append(ran, "normalize")
    /\ UNCHANGED <<req, probe>>

\* healEmptyTags(files, inferredInputs), when the markup is not empty
ParseContent ==
    /\ hpc = "content"
    /\ IF files.html.content = << >>
       THEN files' = files /\ hpc' = "component"
       ELSE IF healEmptyTagsThrows(InputsOf(inferredInputs))
       THEN Raise(files, "Cannot read properties of undefined (reading 'toLowerCase')")
       ELSE /\ files' = [files EXCEPT !.html.content = healEmptyTags(@, InputsOf(inferredInputs))]
            /\ hpc' = "component"
    /\ ran' = Append(ran, "content")
    /\ UNCHANGED <<req, probe>>

\* validateAndHealComponent, when the structural artifact is not empty
ParseComponent ==
    /\ hpc = "component"
    /\ files' = IF files.typescript.content # << >>
                THEN [files EXCEPT !.typescript.content =
                        validateAndHealComponent(@, ~inferredInputs.isNull, InputsOf(inferredInputs))]
                ELSE files
    /\ hpc' = "docs"
    /\ ran' = Append(ran, "component")
    /\ UNCHANGED <<req, probe>>

ParseDocs_skipsValidation ==
    /\ hpc = "docs"
    /\ files' = [files EXCEPT !.story = validateAndHealStory(@, files.typescript.content, req.name,
                                                             InputsOf(inferredInputs))]
    /\ hpc' = "returned"
    /\ ran' = Append(ran, "docs")
    /\ UNCHANGED <<req, probe>>

\* validateAndHealStory
ParseDocs ==
    /\ hpc = "docs"
    /\ LET keep == ~files.story.isNull /\ files.story.content # << >> /\ HasMeta(files.story.content)
       IN  IF ~keep /\ storyThrows(InputsOf(inferredInputs))
           THEN Raise(files, "Cannot read properties of undefined (reading 'includes')")
           ELSE /\ files' = [files EXCEPT !.story = validateAndHealStory(@, files.typescript.content, req.name,
                                                                          InputsOf(inferredInputs))]
                /\ hpc' = "validate"
    /\ ran' = Append(ran, "docs")
    /\ UNCHANGED <<req, probe>>

\* 4. validateExtractedFiles, then return files
ParseValidate ==
    /\ hpc = "validate"
    /\ files' = [files EXCEPT !.errors = @ \o validateExtractedFiles(files)]
    /\ hpc' = "returned"
    /\ ran' = Append(ran, "validate")
    /\ UNCHANGED <<req, probe>>

(***************************************************************************)
(* The helpers of the visual decision applied to drawn arguments           *)
(***************************************************************************)
MaxFigmaNodes == 4

\* fills a node of a drawn tree can carry
FillChoices ==
    << << >>,
       << Fill("SOLID", TRUE, TRUE, 1000, 0, 0) >>,
       << Fill("SOLID", FALSE, TRUE, 0, 0, 1000) >>,
       << Fill("IMAGE", TRUE, TRUE, 0, 0, 0), Fill("SOLID", TRUE, TRUE, 0, 1000, 0),
          Fill("SOLID", TRUE, TRUE, 0, 0, 1000) >>,
       << Fill("SOLID", TRUE, FALSE, 0, 0, 0) >> >>

\* a design node tree of n nodes with the given parents and fills
FigmaTree(n, parent, fills) ==
    [NoNode EXCEPT !.isNull = FALSE, !.n = n, !.parent = parent, !.fills = fills,
                   !.type = [k \in 1..n |-> "FRAME"], !.fontSize = [k \in 1..n |-> 0],
                   !.fontWeight = [k \in 1..n |-> 0], !.hasChildren = TRUE]

\* colour channels, in thousandths
Channels == {0, 2, 300, 500, 502, 1000}

\* file names used as hint when no fill is found, as characters
HintTable ==
    << <<"d","e","l","e","t","e","b","u","t","t","o","n">>,
       <<"s","u","c","c","e","s","s","d","a","n","g","e","r">>,
       <<"c","o","n","f","i","r","m","w","a","r","n">>,
       <<"w","a","r","n","i","n","f","o">>,
       <<"i","n","f","o","c","a","r","d">>,
       <<"a","v","a","t","a","r">>,
       <<"e","r","r","o","r","b","a","n","n","e","r">>,
       << >> >>

\* findFillNode(tree)
ProbeFindFill ==
    /\ probe = NoProbe
    /\ \E n \in 1..MaxFigmaNodes : \E p \in ParentMaps(n) : \E f \in [1..n -> DOMAIN FillChoices] :
          LET nd == FigmaTree(n, p, [k \in 1..n |-> FillChoices[f[k]]])
          IN  probe' = [op |-> "findFillNode", node |-> nd, result |-> findFillNode(nd, 1)]
    /\ UNCHANGED <<govVars, srvVars, req, files, hpc, ran>>

\* rgbToHex(r, g, b) and getContrastColor(r, g, b)
ProbeColor ==
    /\ probe = NoProbe
    /\ \E r \in Channels, g \in Channels, b \in Channels :
          probe' = [op |-> "color", r |-> r, g |-> g, b |-> b,
                    hex |-> rgbToHex(r, g, b), contrast |-> getContrastColor(r, g, b)]
    /\ UNCHANGED <<govVars, srvVars, req, files, hpc, ran>>

\* the visual decision when no fill is found: no node, or a node without valid fill
ProbeFallback ==
    /\ probe = NoProbe
    /\ \E h \in DOMAIN HintTable : \E nd \in {NoNode, FigmaTree(1, <<0>>, << FillChoices[3] >>)} :
          probe' = [op |-> "fallback", hint |-> HintTable[h], node |-> nd,
                    styles |-> VisualStyles(nd, KeywordsIn(HintTable[h]))]
    /\ UNCHANGED <<govVars, srvVars, req, files, hpc, ran>>

\* file names of structural artifacts handed to the classification
FileNameTable ==
    << <<"I","c","o","n","B","u","t","t","o","n">>,
       <<"C","a","r","d","I","c","o","n">>,
       <<"I","c","o","n","I","n","p","u","t">>,
       <<"I","n","p","u","t">>,
       <<"I","c","o","n">>,
       <<"I","n","f","o","C","a","r","d">>,
       <<"D","e","l","e","t","e","B","a","d","g","e">>,
       <<"A","v","a","t","a","r">> >>

\* visualGatekeeper(files, figmaNodeData): the style artifact before and after
ProbeStrategy ==
    /\ probe = NoProbe
    /\ \E h \in DOMAIN FileNameTable : \E nd \in DOMAIN FigmaTable : \E scss \in {<< >>, ScssCustom, ScssTwo} :
          LET fileName == toLowerCase(FileNameTable[h]) \o ComponentSuffix
          IN  probe' = [op |-> "strategy", fileName |-> fileName, node |-> nd, before |-> scss,
                        styles |-> VisualStyles(FigmaTable[nd], KeywordsIn(fileName)),
                        after |-> visualGatekeeper(scss, FigmaTable[nd], fileName)]
    /\ UNCHANGED <<govVars, srvVars, req, files, hpc, ran>>

(***************************************************************************)
(* The second validator: validateNode of the design validator script       *)
(*   It is run here on the trees of the engine, which carry                *)
(*   componentProperties and no props field: its property check is        *)
(*   skipped.                                                              *)
(***************************************************************************)
Result(k, status, message) == [id |-> k, status |-> status, message |-> message]

\* node.name.replace('app-', '')
validatorLookup(name) == RemoveFirst(name, APP)

\* the nesting results of a registered node k under parent par
nestingResults(t, k, par) ==
    LET lk == validatorLookup(NameOf(t, k))
        plk == validatorLookup(NameOf(t, par))
    IN  IF plk \in DOMAIN registry /\ registry[plk].hasComposition
        THEN (IF includes(registry[plk].cannotContain, lk) \/ includes(registry[plk].cannotContain, STAR)
              THEN << Result(k, "ERROR", "ILLEGAL NESTING") >> ELSE << >>)
             \o (IF registry[plk].canContain # << >> /\ ~includes(registry[plk].canContain, STAR)
                    /\ ~includes(registry[plk].canContain, lk)
                 THEN << Result(k, "WARNING", "STRICT NESTING") >> ELSE << >>)
        ELSE << >>

RECURSIVE validateNode(_, _, _)
validateNode(t, k, par) ==
    IF validatorLookup(NameOf(t, k)) \notin DOMAIN registry
    THEN << Result(k, "ERROR", "does not exist in the Design System registry") >>
    ELSE LET own == IF par = 0 THEN << >> ELSE nestingResults(t, k, par)
             ch == children(t, k)
         IN  (IF own = << >> THEN << Result(k, "SUCCESS", "is valid") >> ELSE own)
             \o Flatten([i \in 1..Len(ch) |-> validateNode(t, ch[i], k)])

\* the frame report: pass = no ERROR among the results of the frame's nodes
framePass(results) == ~\E i \in 1..Len(results) : results[i].status = "ERROR"

(***************************************************************************)
(* Code generation server: POST /generate-code                             *)
(*   A handler runs in segments separated by its awaits; segments of       *)
(*   different requests interleave.                                        *)
(***************************************************************************)
NumRequests == 2

Letters ==
    {"a","b","c","d","e","f","g","h","i","j","k","l","m","n","o","p","q","r","s","t","u","v","w","x","y","z",
     "A","B","C","D","E","F","G","H","I","J","K","L","M","N","O","P","Q","R","S","T","U","V","W","X","Y","Z"}
Digits == {"0","1","2","3","4","5","6","7","8","9"}

GeneratedScreenChars == <<"G","e","n","e","r","a","t","e","d","S","c","r","e","e","n">>
TestScreenChars == <<"T","e","s","t","S","c","r","e","e","n">>
ComponentChars == <<"C","o","m","p","o","n","e","n","t">>

\* the sanitization of screenName in generateAngularCode and testPipeline
sanitizedScreenName(screenName, fallback) ==
    LET stripped == SelectSeq(screenName, LAMBDA ch : ch \in Letters \cup Digits)
        prefixed == IF stripped # << >> /\ stripped[1] \in Digits THEN ComponentChars \o stripped ELSE stripped
    IN  IF prefixed = << >> THEN fallback ELSE prefixed

\* layouts: the pairs handed to validateComposition with its verdict
Pair(section, componentKey, valid) == [section |-> section, componentKey |-> componentKey, valid |-> valid]

LayoutTable ==
    << [isNull |-> TRUE, hasSections |-> FALSE, pairs |-> << >>],
       [isNull |-> FALSE, hasSections |-> TRUE,
        pairs |-> << Pair("header", "app-button", TRUE), Pair("main_content", "app-card", TRUE) >>],
       [isNull |-> FALSE, hasSections |-> TRUE,
        pairs |-> << Pair("header", "app-button", TRUE), Pair("footer", "app-modal", FALSE) >>],
       [isNull |-> FALSE, hasSections |-> FALSE, pairs |-> << Pair("main_content", "app-button", TRUE) >>],
       [isNull |-> FALSE, hasSections |-> FALSE, pairs |-> << Pair("main_content", "app-nav", FALSE) >>] >>

\* request bodies: screenName, testMode, figmaLayoutJSON
Body(screenName, testMode, layout) == [screenName |-> screenName, testMode |-> testMode, layout |-> layout]

RequestTable ==
    << Body(<<"L","o","g","i","n">>, FALSE, 2),
       Body(<<".",".","/","x">>, FALSE, 2),
       Body(<<"9","a">>, FALSE, 4),
       Body(<< >>, TRUE, 3),
       Body(<<"L","o","g","i","n">>, FALSE, 3),
       Body(<<"!","!">>, TRUE, 4),
       Body(<<"C","a","r","d">>, FALSE, 5),
       Body(<<"L","o","g","i","n">>, FALSE, 1) >>

\* what parseGeminiResponse returned, by the features the server reads
Bundle(errors, component, forbidden) ==
    [isNull |-> FALSE, errors |-> errors, hasTypescript |-> TRUE, component |-> component, forbidden |-> forbidden]

NoBundle == [isNull |-> TRUE, errors |-> << >>, hasTypescript |-> FALSE, component |-> FALSE, forbidden |-> FALSE]

BundleTable ==
    << Bundle(<< >>, TRUE, FALSE),
       Bundle(<< >>, TRUE, TRUE),
       Bundle(<< "TypeScript validation failed: Missing @Component decorator" >>, FALSE, FALSE) >>

\* validateProductionCode(generatedFiles, screenName).valid
validateProductionCode_always(generatedFiles) == TRUE

validateProductionCode(generatedFiles) ==
    ~(generatedFiles.hasTypescript /\ ~generatedFiles.component) /\ ~generatedFiles.forbidden

NoResult == [success |-> FALSE, generatedFiles |-> NoBundle, errors |-> << >>]

IdleHandler ==
    [pc |-> "idle", body |-> 0, finalScreenName |-> << >>, result |-> NoResult, docs |-> FALSE,
     status |-> 0, step |-> ""]

ServerInit ==
    /\ handlers = [r \in 1..NumRequests |-> IdleHandler]
    /\ written = {}
    /\ lastGeneratedFiles = [isNull |-> TRUE, request |-> 0, files |-> NoBundle, screenName |-> << >>]
    /\ generatorCalls = {}

layoutOf(r) == LayoutTable[RequestTable[handlers[r].body].layout]

\* MCP validation of generateAngularCode: the messages of the rejected pairs
validationErrors(layout) ==
    LET bad == SelectSeq(layout.pairs, LAMBDA pr : ~pr.valid)
    IN  [k \in 1..Len(bad) |->
            IF layout.hasSections
            THEN "[MCP Error] Section '" \o bad[k].section \o "': rejected " \o bad[k].componentKey
            ELSE "[MCP Error] Root: rejected " \o bad[k].componentKey]

respond(r, h, status, step) ==
    handlers' = [handlers EXCEPT ![r] = [h EXCEPT !.pc = "done", !.status = status, !.step = step]]

\* the handler up to its first await
Receive(r) ==
    /\ handlers[r].pc = "idle"
    /\ \E b \in DOMAIN RequestTable :
          LET body == RequestTable[b]
              h == [handlers[r] EXCEPT !.body = b,
                        !.finalScreenName = IF body.screenName = << >> THEN GeneratedScreenChars
                                            ELSE body.screenName]
          IN  IF LayoutTable[body.layout].isNull
              THEN respond(r, h, 400, "bad-request")
              ELSE handlers' = [handlers EXCEPT ![r] = [h EXCEPT !.pc = "generate"]]
    /\ UNCHANGED <<written, lastGeneratedFiles, generatorCalls>>

\* generateAngularCode up to the call of the generative model
GenerateStart(r) ==
    /\ handlers[r].pc = "generate"
    /\ ~RequestTable[handlers[r].body].testMode
    /\ \E irThrows \in BOOLEAN :
          LET errs == validationErrors(layoutOf(r))
              failed(errors) == [handlers EXCEPT ![r].pc = "generated",
                                    ![r].result = [success |-> FALSE, generatedFiles |-> NoBundle, errors |-> errors]]
          IN  IF irThrows
              THEN handlers' = failed(<< "Pipeline error: Design IR" >>) /\ UNCHANGED generatorCalls
              ELSE IF errs # << >>
              THEN handlers' = failed(errs \o << "Pipeline error: MCP Validation Failed" >>)
                   /\ UNCHANGED generatorCalls
              ELSE /\ handlers' = [handlers EXCEPT ![r].pc = "awaitModel"]
                   /\ generatorCalls' = generatorCalls \cup {r}
    /\ UNCHANGED <<written, lastGeneratedFiles>>

\* callGeminiAPI settles; parseGeminiResponse and the rest of generateAngularCode
GenerateReturn(r) ==
    /\ handlers[r].pc = "awaitModel"
    /\ \E apiThrows \in BOOLEAN : \E b \in DOMAIN BundleTable :
          handlers' = [handlers EXCEPT ![r].pc = "generated",
                          ![r].result =
                              IF apiThrows
                              THEN [success |-> FALSE, generatedFiles |-> NoBundle,
                                    errors |-> << "Pipeline error: Gemini API error" >>]
                              ELSE [success |-> BundleTable[b].errors = << >>, generatedFiles |-> BundleTable[b],
                                    errors |-> BundleTable[b].errors]]
    /\ UNCHANGED <<written, lastGeneratedFiles, generatorCalls>>

\* testPipeline: mock response, no call of the generative model
TestGenerate(r) ==
    /\ handlers[r].pc = "generate"
    /\ RequestTable[handlers[r].body].testMode
    /\ \E irThrows \in BOOLEAN : \E b \in DOMAIN BundleTable :
          handlers' = [handlers EXCEPT ![r].pc = "generated",
                          ![r].result =
                              IF irThrows THEN NoResult
                              ELSE [success |-> BundleTable[b].errors = << >>, generatedFiles |-> BundleTable[b],
                                    errors |-> << >>]]
    /\ UNCHANGED <<written, lastGeneratedFiles, generatorCalls>>

FileTypesWritten == <<"typescript", "html", "scss">>

\* writeFilesToDisk: the directory is path.join(OUTPUT_DIR, screenName.toLowerCase())
componentDir(screenName) == toLowerCase(screenName)

\* the handler from the generation result to the await of the documentation
\* pipeline: result check, validateProductionCode, writeFilesToDisk
AfterGenerate_writesFirst(r) ==
    /\ handlers[r].pc = "generated"
    /\ LET h == handlers[r]
       IN  \E k \in 0..3 : \E docsOk \in BOOLEAN :
              /\ written' = written \cup
                    {[dir |-> componentDir(h.finalScreenName), type |-> FileTypesWritten[i], request |-> r] :
                        i \in 1..k}
              /\ IF ~h.result.success THEN respond(r, h, 400, "code-generation")
                 ELSE IF ~validateProductionCode(h.result.generatedFiles)
                 THEN respond(r, h, 400, "production-validation")
                 ELSE IF k < 3 THEN respond(r, h, 500, "file-writing")
                 ELSE handlers' = [handlers EXCEPT ![r].pc = "awaitDocs", ![r].docs = docsOk]
    /\ UNCHANGED <<lastGeneratedFiles, generatorCalls>>

AfterGenerate(r) ==
    /\ handlers[r].pc = "generated"
    /\ LET h == handlers[r]
       IN  IF ~h.result.success
           THEN respond(r, h, 400, "code-generation") /\ UNCHANGED written
           ELSE IF ~validateProductionCode(h.result.generatedFiles)
           THEN respond(r, h, 400, "production-validation") /\ UNCHANGED written
           ELSE \E k \in 0..3 : \E docsOk \in BOOLEAN :
                  \* k files are written before writeFileSync throws (3: none throws)
                  /\ written' = written \cup
                        {[dir |-> componentDir(h.finalScreenName), type |-> FileTypesWritten[i], request |-> r] :
                            i \in 1..k}
                  /\ IF k < 3 THEN respond(r, h, 500, "file-writing")
                     ELSE IF ~h.result.generatedFiles.hasTypescript
                     THEN respond(r, h, 500, "pipeline-orchestration")
                     ELSE handlers' = [handlers EXCEPT ![r].pc = "awaitDocs", ![r].docs = docsOk]
    /\ UNCHANGED <<lastGeneratedFiles, generatorCalls>>

\* the handler after runSmartDocumentationPipeline settled
Complete_storesFirst(r) ==
    /\ handlers[r].pc = "awaitDocs"
    /\ LET h == handlers[r]
       IN  /\ lastGeneratedFiles' = [isNull |-> FALSE, request |-> r, files |-> h.result.generatedFiles,
                                     screenName |-> h.finalScreenName]
           /\ IF ~h.docs THEN respond(r, h, 500, "smart-documentation") ELSE respond(r, h, 200, "")
    /\ UNCHANGED <<written, generatorCalls>>

Complete(r) ==
    /\ handlers[r].pc = "awaitDocs"
    /\ LET h == handlers[r]
       IN  IF ~h.docs
           THEN respond(r, h, 500, "smart-documentation") /\ UNCHANGED lastGeneratedFiles
           ELSE /\ lastGeneratedFiles' = [isNull |-> FALSE, request |-> r, files |-> h.result.generatedFiles,
                                          screenName |-> h.finalScreenName]
                /\ respond(r, h, 200, "")
    /\ UNCHANGED <<written, generatorCalls>>

(***************************************************************************)
(* Input inference: inferAngularInputs                                     *)
(***************************************************************************)
\* component properties a node can carry, in the order of the object's keys;
\* options = << >> with hasOptions = FALSE is a property without variantOptions
Prop(name, chars, type, hasOptions, options) ==
    [name |-> name, chars |-> chars, type |-> type, hasOptions |-> hasOptions, options |-> options]

PropTable ==
    << Prop("disabled", <<"d","i","s","a","b","l","e","d">>, "BOOLEAN", FALSE, << >>),
       Prop("active", <<"a","c","t","i","v","e">>, "BOOLEAN", FALSE, << >>),
       Prop("loading", <<"l","o","a","d","i","n","g">>, "BOOLEAN", FALSE, << >>),
       Prop("variant", <<"v","a","r","i","a","n","t">>, "VARIANT", TRUE, <<"primary", "secondary">>),
       Prop("state", <<"s","t","a","t","e">>, "VARIANT", TRUE, <<"on">>),
       Prop("size", <<"s","i","z","e">>, "VARIANT", TRUE, <<"sm", "md", "huge">>),
       Prop("iconsize", <<"i","c","o","n","s","i","z","e">>, "VARIANT", FALSE, << >>) >>

BooleanWords ==
    { <<"d","i","s","a","b","l","e","d">>, <<"a","c","t","i","v","e">>, <<"s","e","l","e","c","t","e","d">>,
      <<"l","o","a","d","i","n","g">>, <<"v","i","s","i","b","l","e">> }

SizeTokens == {"sm", "md", "lg", "small", "medium", "large", "xs", "xl"}

\* a node: its text nodes (visible or not) and the chosen properties
InferNode(texts, props) == [isNull |-> FALSE, texts |-> texts, props |-> props]

Quoted(text) == "'" \o text \o "'"

RECURSIVE JoinBar(_)
JoinBar(parts) ==
    IF parts = << >> THEN ""
    ELSE IF Len(parts) = 1 THEN parts[1]
    ELSE parts[1] \o " | " \o JoinBar(Tail(parts))

Inferred(input, binding) == [input |-> input, binding |-> binding]

\* Rule 1: exactly one visible text node
inferLabelInput(nd) ==
    LET textNodes == SelectSeq(nd.texts, LAMBDA t : t.visible)
    IN  IF Len(textNodes) # 1 THEN << >>
        ELSE << Inferred([name |-> "label", type |-> "string", defaultValue |-> Quoted(textNodes[1].characters)],
                         [type |-> "interpolation", target |-> "text-content", expression |-> "{{ label }}"]) >>

\* Rule 2: properties whose name contains a boolean word
inferBooleanInputs(nd) ==
    LET hits == SelectSeq(nd.props, LAMBDA pr : \E w \in BooleanWords : includesText(pr.chars, w))
    IN  [k \in 1..Len(hits) |->
            Inferred([name |-> hits[k].name, type |-> "boolean", defaultValue |-> "false"],
                     [type |-> "property", target |-> "[" \o hits[k].name \o "]", expression |-> hits[k].name])]

IsSizeName(pr) == includesText(pr.chars, <<"s","i","z","e">>)

\* Rule 3: VARIANT properties with more than one option, size ones skipped
inferVariantInputs(nd) ==
    LET hits == SelectSeq(nd.props, LAMBDA pr :
                    ~IsSizeName(pr) /\ pr.type = "VARIANT" /\ pr.hasOptions /\ Len(pr.options) > 1)
    IN  [k \in 1..Len(hits) |->
            LET variants == [i \in 1..Len(hits[k].options) |-> Quoted(hits[k].options[i])]
            IN  Inferred([name |-> hits[k].name, type |-> JoinBar(variants), defaultValue |-> variants[1]],
                         [type |-> "class", target |-> "[class]",
                          expression |-> Quoted(hits[k].name \o "-") \o " + " \o hits[k].name])]

\* Rule 4: the first size VARIANT property with a size option; reading the
\* options of a property without variantOptions raises
RECURSIVE inferSizeInput(_)
inferSizeInput(props) ==
    IF props = << >> THEN [raised |-> FALSE, found |-> << >>]
    ELSE LET pr == Head(props)
         IN  IF ~(IsSizeName(pr) /\ pr.type = "VARIANT") THEN inferSizeInput(Tail(props))
             ELSE IF ~pr.hasOptions THEN [raised |-> TRUE, found |-> << >>]
             ELSE LET sizeVariants == SelectSeq([i \in 1..Len(pr.options) |-> pr.options[i]],
                                                LAMBDA o : o \in SizeTokens)
                      quoted == [i \in 1..Len(sizeVariants) |-> Quoted(sizeVariants[i])]
                  IN  IF sizeVariants = << >> THEN inferSizeInput(Tail(props))
                      ELSE [raised |-> FALSE,
                            found |-> << Inferred(
                                [name |-> "size", type |-> JoinBar(quoted),
                                 defaultValue |-> IF \E i \in 1..Len(quoted) : quoted[i] = "'md'"
                                                  THEN "'md'" ELSE quoted[1]],
                                [type |-> "class", target |-> "[class]", expression |-> "'size-' + size"]) >>]

InferResult(all, warnings) ==
    [inputs |-> [k \in 1..Len(all) |-> all[k].input],
     templateBindings |-> [k \in 1..Len(all) |-> all[k].binding],
     warnings |-> warnings]

\* everything pushed before the cap or the raise
pushedInputs(nd) ==
    IF nd.isNull THEN << >>
    ELSE inferLabelInput(nd) \o inferBooleanInputs(nd) \o inferVariantInputs(nd) \o inferSizeInput(nd.props).found

inferAngularInputs(nd) ==
    IF nd.isNull THEN InferResult(<< >>, << "Inference error: Cannot read properties of null (reading 'type')" >>)
    ELSE LET all == pushedInputs(nd)
         IN  IF inferSizeInput(nd.props).raised
             THEN InferResult(all, << "Inference error: Cannot read properties of undefined (reading 'filter')" >>)
             ELSE IF Len(all) > 3
             THEN InferResult(SubSeq(all, 1, 3), << "Limited to 3 inputs per component (safety rule)" >>)
             ELSE InferResult(all, << >>)

TextChoices ==
    { << >>, << [visible |-> TRUE, characters |-> "Click Me"] >>,
      << [visible |-> TRUE, characters |-> "Save"], [visible |-> FALSE, characters |-> "Hidden"] >>,
      << [visible |-> TRUE, characters |-> "A"], [visible |-> TRUE, characters |-> "B"] >> }

\* inferAngularInputs(figmaNode, componentName)
ProbeInfer ==
    /\ probe = NoProbe
    /\ \E nd \in {[isNull |-> TRUE, texts |-> << >>, props |-> << >>]}
                 \cup {InferNode(t, SelectSeq(PropTable, LAMBDA pr : pr.name \in chosen)) :
                          t \in TextChoices, chosen \in SUBSET {PropTable[i].name : i \in DOMAIN PropTable}} :
          probe' = [op |-> "infer", node |-> nd, result |-> inferAngularInputs(nd)]
    /\ UNCHANGED <<govVars, srvVars, req, files, hpc, ran>>

(***************************************************************************)
(* Specifications                                                          *)
(*   Spec     : one validate() call on a freshly constructed engine        *)
(*   SpecConc : NumCalls validate() calls on one engine, a call being      *)
(*              allowed to start while another is inside its walk (a       *)
(*              re-entrant call made during the walk); the call that       *)
(*              started last runs to its return before the interrupted     *)
(*              one resumes                                                *)
(*   SpecHeal : one parseGeminiResponse call, stage by stage               *)
(*   SpecVisual : findFillNode, rgbToHex, getContrastColor and the         *)
(*              fallback of visualGatekeeper on drawn arguments            *)
(***************************************************************************)
Init == GovInit /\ HealInit /\ ServerInit

\* one validate() call at a time on a fresh engine
Next ==
    \/ Begin(1, MaxNodes, Labels) /\ active = << >> /\ UNCHANGED <<healVars, srvVars>>
    \/ Visit(1) /\ UNCHANGED <<healVars, srvVars>>
    \/ Finish(1) /\ UNCHANGED <<healVars, srvVars>>

Spec == Init /\ [][Next]_vars

\* validate() calls on one engine, one entered while another is in progress
NextConc ==
    \E c \in 1..NumCalls :
        \/ Begin(c, ConcMaxNodes, ConcLabels) /\ UNCHANGED <<healVars, srvVars>>
        \/ Visit(c) /\ UNCHANGED <<healVars, srvVars>>
        \/ Finish(c) /\ UNCHANGED <<healVars, srvVars>>

SpecConc == Init /\ [][NextConc]_vars

\* one parseGeminiResponse call
NextHeal ==
    \/ ParseStart /\ UNCHANGED <<govVars, srvVars>>
    \/ ParseExtract /\ UNCHANGED <<govVars, srvVars>>
    \/ ParseFixTemplateUrl /\ UNCHANGED <<govVars, srvVars>>
    \/ ParseStory /\ UNCHANGED <<govVars, srvVars>>
    \/ ParseSanitize /\ UNCHANGED <<govVars, srvVars>>
    \/ ParseVisual /\ UNCHANGED <<govVars, srvVars>>
    \/ ParseNormalize /\ UNCHANGED <<govVars, srvVars>>
    \/ ParseContent /\ UNCHANGED <<govVars, srvVars>>
    \/ ParseComponent /\ UNCHANGED <<govVars, srvVars>>
    \/ ParseDocs /\ UNCHANGED <<govVars, srvVars>>
    \/ ParseValidate /\ UNCHANGED <<govVars, srvVars>>

SpecHeal == Init /\ [][NextHeal]_vars

\* the helpers of the visual decision: one application to arguments drawn
\* from the sets above (the helpers keep no state between applications)
NextVisual ==
    \/ ProbeFindFill
    \/ ProbeColor
    \/ ProbeFallback
    \/ ProbeStrategy

SpecVisual == Init /\ [][NextVisual]_vars

\* inferAngularInputs applied to one drawn node
NextInfer == ProbeInfer

SpecInfer == Init /\ [][NextInfer]_vars

\* POST /generate-code: NumRequests requests, their handlers interleaved at
\* the awaits
NextServer ==
    \E r \in 1..NumRequests :
        \/ Receive(r) /\ UNCHANGED <<govVars, healVars>>
        \/ GenerateStart(r) /\ UNCHANGED <<govVars, healVars>>
        \/ GenerateReturn(r) /\ UNCHANGED <<govVars, healVars>>
        \/ TestGenerate(r) /\ UNCHANGED <<govVars, healVars>>
        \/ AfterGenerate(r) /\ UNCHANGED <<govVars, healVars>>
        \/ Complete(r) /\ UNCHANGED <<govVars, healVars>>

SpecServer == Init /\ [][NextServer]_vars

(***************************************************************************)
(* Healing pipeline: claims                                                *)
(***************************************************************************)
HealReturned == hpc = "returned"

Artifacts == {"typescript", "html", "scss", "story"}

\* the returned bundle lacks an artifact, or holds one with empty content
BundleIncomplete == \E a \in Artifacts : files[a].isNull \/ files[a].content = << >>

\* the structural artifact lacks the component-declaration marker, the
\* exported-class marker or the core framework import marker
StructuralMarkerMissing ==
    /\ ~files.typescript.isNull
    /\ \/ \A i \in 1..Len(files.typescript.content) : files.typescript.content[i].kind # "decorator"
       \/ \A i \in 1..Len(files.typescript.content) : files.typescript.content[i].kind # "class"
       \/ \A i \in 1..Len(files.typescript.content) :
             ~(files.typescript.content[i].kind = "import" /\ files.typescript.content[i].from = "@angular/core")

\* C10: every heal run that returns a bundle lacking one of the four
\* artifacts, or holding an artifact with empty content, or whose structural
\* artifact lacks a required structural marker, returns a non-empty errors
\* list: a partial bundle never comes back with an empty error list.
C10_PartialBundleHasErrors ==
    (HealReturned /\ (BundleIncomplete \/ StructuralMarkerMissing)) => files.errors # << >>

\* a run that went through every stage and whose final validation reported a
\* structural artifact that lost all its content while the other three
\* artifacts are present
C10_Witness ==
    /\ HealReturned
    /\ \A a \in Artifacts : ~files[a].isNull
    /\ files.typescript.content = << >>
    /\ files.html.content # << >> /\ files.scss.content # << >> /\ files.story.content # << >>
    /\ files.errors = << "Empty typescript file content" >>

\* ---- extraction failure
CoreLanguages == <<"typescript", "html", "scss">>

\* what extractCodeBlock yields for the k-th of the three required blocks of the request
Extracted(k) == extractCodeBlock(response, CoreLanguages[k], CompNameTable[req.name].name, FALSE)

\* one of the three required blocks cannot be located in the raw text
ExtractionFails == \E k \in 1..3 : ~Extracted(k).found

\* the documentation block cannot be located in the raw text
StoryMissing == ~extractCodeBlock(response, "typescript", CompNameTable[req.name].name, TRUE).found

\* C11: when the structural, markup or style block cannot be located, no
\* later stage executes, the returned bundle holds exactly the artifacts
\* extracted before the failing one, with their extracted content, and errors
\* has exactly one entry; a run whose three required blocks are located is
\* not aborted at extraction, whether or not a documentation block exists.
C11_ExtractionFailureAborts ==
    HealReturned =>
        /\ ExtractionFails =>
              /\ ran = << >>
              /\ Len(files.errors) = 1
              /\ \A k \in 1..3 :
                    files[CoreLanguages[k]] =
                        IF \A j \in 1..k : Extracted(j).found THEN Extracted(k).file ELSE NullFile
              /\ files.story = NullFile
        /\ ~ExtractionFails => (ran # << >> /\ Head(ran) = "repair")

\* the style block is missing: the run returns the structural and markup
\* artifacts and one error
C11_Witness ==
    /\ HealReturned
    /\ ~files.typescript.isNull /\ ~files.html.isNull /\ files.scss.isNull /\ files.story.isNull
    /\ files.errors = << "Gatekeeper error: No scss code block found" >>
    /\ ran = << >>

\* a run without documentation block that reaches the final validation
C11_WitnessNoStory == HealReturned /\ StoryMissing /\ ~ExtractionFails /\ "validate" \in {ran[i] : i \in 1..Len(ran)}

\* C12: a stage that raises does not end the call in an exception: the step
\* in which it raises leads to the return of the bundle, appends one entry to
\* errors and leaves every artifact present before that step as it was.
C12_NeverThrowsKeepsArtifacts ==
    [][(hpc \notin {"validate", "returned"} /\ hpc' = "returned") =>
            /\ Len(files'.errors) = Len(files.errors) + 1
            /\ \A a \in Artifacts : ~files[a].isNull => files'[a] = files[a]]_vars

\* documentation healing raised on an input without type: the bundle still
\* holds the three healed artifacts, the override block included
C12_Witness ==
    /\ HealReturned
    /\ files.errors = << "Gatekeeper error: Cannot read properties of undefined (reading 'includes')" >>
    /\ ran = << "repair", "sanitize", "visual", "normalize", "content", "component", "docs" >>
    /\ \E i \in 1..Len(files.scss.content) : files.scss.content[i].kind = "override"
    /\ \E i \in 1..Len(files.typescript.content) : files.typescript.content[i].kind = "inputDecl"

\* ---- order of the stages
StageOrder == << "repair", "sanitize", "visual", "normalize", "content", "component", "docs", "validate" >>

\* the entries the catch block can append
RaisedMessages ==
    { "Gatekeeper error: No typescript code block found", "Gatekeeper error: No html code block found",
      "Gatekeeper error: No scss code block found",
      "Gatekeeper error: Cannot read properties of undefined (reading 'toLowerCase')",
      "Gatekeeper error: Cannot read properties of undefined (reading 'includes')" }

StageRaised == \E i \in 1..Len(files.errors) : files.errors[i] \in RaisedMessages

BindingWords == {"label", "text", "caption", "title", "content"}

\* the name to bind: that of the first inferred input, in list order, whose
\* lower-cased name is one of the binding words; label when there is none
ExpectedBinding(inputs) ==
    LET M == {k \in 1..Len(inputs) : inputs[k].lower \in BindingWords}
    IN  IF M = {} THEN "label" ELSE inputs[CHOOSE k \in M : \A j \in M : k <= j].name

\* i opens a button that has nothing but whitespace before its closing tag at j
EmptyButtonAt(content, i, j) ==
    /\ i < j /\ j <= Len(content)
    /\ content[i].kind = "open" /\ content[i].tag = "button"
    /\ content[j].kind = "closeTag" /\ content[j].tag = "button"
    /\ \A m \in (i + 1)..(j - 1) : content[m].kind = "ws"

HasEmptyButton(content) == \E i, j \in 1..Len(content) : EmptyButtonAt(content, i, j)

\* the markup with {{ X }} as the content of every empty button
ExpectedHealed(content, X) ==
    Flatten([m \in 1..Len(content) |->
        IF \E j \in 1..Len(content) : EmptyButtonAt(content, m, j)
        THEN << content[m], HtmlText("{{ " \o X \o " }}") >>
        ELSE IF \E i, j \in 1..Len(content) : EmptyButtonAt(content, i, j) /\ i < m /\ m < j
        THEN << >>
        ELSE << content[m] >>])

C15_ContentHealingIdempotent ==
    (hpc = "component" /\ files.html.content # << >>) =>
        healEmptyTags(files.html.content, InputsOf(inferredInputs)) = files.html.content

\* healed markup that holds an injected binding
C15_Witness ==
    /\ hpc = "component"
    /\ \E i \in 1..Len(files.html.content) : files.html.content[i] = HtmlText("{{ label }}")
    /\ healEmptyTags(files.html.content, InputsOf(inferredInputs)) = files.html.content

\* ---- documentation healing
\* the documentation artifact of the bundle is a generated one
StoryRegenerated ==
    /\ hpc \in {"validate", "returned"}
    /\ ~files.story.isNull /\ files.story.content # << >> /\ files.story.content[1].kind = "story"

\* index of the first inferred input called name
FirstNamed(inputs, name) ==
    CHOOSE k \in 1..Len(inputs) : inputs[k].name = name /\ \A j \in 1..(k - 1) : inputs[j].name # name

\* control descriptor an input maps to
ExpectedControl(input) ==
    IF input.type = "boolean" THEN "boolean" ELSE IF Len(input.alts) > 1 THEN "select" ELSE "text"

\* C16: a regenerated documentation artifact lists every inferred-input name
\* exactly once among its controls and exactly once among its default
\* arguments, however many inputs share the name, and the first input of
\* that name supplies the control type and the default.
C16_StoryInputsDeduplicated ==
    StoryRegenerated =>
        LET st == files.story.content[1]
            inputs == InputsOf(inferredInputs)
            names == {inputs[k].name : k \in 1..Len(inputs)}
        IN  /\ Len(st.argTypes) = Cardinality(names) /\ Len(st.args) = Cardinality(names)
            /\ \A name \in names :
                  /\ Cardinality({i \in 1..Len(st.argTypes) : st.argTypes[i].name = name}) = 1
                  /\ Cardinality({i \in 1..Len(st.args) : st.args[i].name = name}) = 1
                  /\ \A i \in 1..Len(st.argTypes) :
                        st.argTypes[i].name = name =>
                            st.argTypes[i].control = ExpectedControl(inputs[FirstNamed(inputs, name)])
                  /\ \A i \in 1..Len(st.args) :
                        st.args[i].name = name => st.args[i] = defaultArg(inputs[FirstNamed(inputs, name)])

\* two inferred inputs are called size: the generated artifact has one size
\* control, the select of the first of them, with its default
C16_Witness ==
    /\ StoryRegenerated /\ hpc = "returned"
    /\ Cardinality({k \in 1..Len(InputsOf(inferredInputs)) : InputsOf(inferredInputs)[k].name = "size"}) = 2
    /\ files.story.content[1].argTypes[1] = [name |-> "size", control |-> "select", options |-> <<"sm", "lg">>]
    /\ files.story.content[1].args[1] = [name |-> "size", value |-> "'sm'"]

(***************************************************************************)
(* Visual decision: claims                                                 *)
(***************************************************************************)
\* an entry of fills that qualifies: SOLID, not hidden, with a colour
Qualifies(f) == f.type = "SOLID" /\ f.visible /\ f.hasColor

\* the node k and its ancestors
RECURSIVE AncestorsOrSelf(_, _)
AncestorsOrSelf(nd, k) == IF k = 0 THEN {} ELSE {k} \cup AncestorsOrSelf(nd, nd.parent[k])

\* a comes before b in pre-order: a is an ancestor of b, or below their
\* deepest common ancestor the branch of a is to the left of the branch of b
PreOrderBefore(nd, a, b) ==
    LET A == AncestorsOrSelf(nd, a)
        B == AncestorsOrSelf(nd, b)
        lca == CHOOSE c \in A \cap B : \A d \in A \cap B : d <= c
        branchA == CHOOSE c \in A : nd.parent[c] = lca
        branchB == CHOOSE c \in B : nd.parent[c] = lca
    IN  /\ a # b
        /\ \/ a \in B
           \/ b \notin A /\ branchA < branchB

\* C17: findFillNode returns the first node in pre-order (root first, each
\* subtree fully before the next sibling) that has a qualifying entry in its
\* fills, with the first such entry of that node, and returns nothing
\* exactly when no node of the tree has one.
C17_FirstFillInPreOrder ==
    probe.op = "findFillNode" =>
        LET nd == probe.node
            V == {k \in 1..nd.n : \E i \in 1..Len(nd.fills[k]) : Qualifies(nd.fills[k][i])}
        IN  IF V = {} THEN ~probe.result.found
            ELSE /\ probe.result.found
                 /\ probe.result.node \in V
                 /\ \A j \in V \ {probe.result.node} : PreOrderBefore(nd, probe.result.node, j)
                 /\ \E i \in 1..Len(nd.fills[probe.result.node]) :
                       /\ probe.result.fill = nd.fills[probe.result.node][i]
                       /\ Qualifies(nd.fills[probe.result.node][i])
                       /\ \A m \in 1..(i - 1) : ~Qualifies(nd.fills[probe.result.node][m])

\* root without qualifying fill, children 2 and 3, node 4 below 2: nodes 3
\* and 4 qualify and the deeper node of the first subtree is returned, with
\* the second entry of its fills (the first one is an image)
C17_Witness ==
    /\ probe.op = "findFillNode"
    /\ probe.node.n = 4 /\ probe.node.parent = <<0, 1, 1, 2>>
    /\ probe.node.fills[1] = FillChoices[3] /\ probe.node.fills[2] = << >>
    /\ probe.node.fills[3] = FillChoices[2] /\ probe.node.fills[4] = FillChoices[4]
    /\ probe.result = [found |-> TRUE, node |-> 4, fill |-> Fill("SOLID", TRUE, TRUE, 0, 1000, 0)]

\* ---- colours
\* the integer nearest to c * 255 (halves go up), c in thousandths
NearestByte(c) == CHOOSE v \in 0..255 : 2000 * v <= 510 * c + 1000 /\ 510 * c + 1000 < 2000 * (v + 1)

UpperHexDigit ==
    [d \in 0..15 |-> CASE d = 10 -> "A" [] d = 11 -> "B" [] d = 12 -> "C" [] d = 13 -> "D"
                       [] d = 14 -> "E" [] d = 15 -> "F" [] OTHER -> ToString(d)]

TwoHexDigits(v) == UpperHexDigit[v \div 16] \o UpperHexDigit[v % 16]

\* C18: the contrast colour of (r,g,b) is #000000 exactly when
\* 0.299 r + 0.587 g + 0.114 b is strictly greater than 0.5 and #FFFFFF
\* otherwise, so that luminance 0.5 gives #FFFFFF, (1,0,0) gives #FFFFFF and
\* (1,1,1) gives #000000; the hex string is # followed by round(c * 255) of
\* each channel as two upper-case hex digits, #FF0000 for (1,0,0).
C18_ContrastAndHex ==
    probe.op = "color" =>
        /\ probe.contrast = IF 299 * probe.r + 587 * probe.g + 114 * probe.b > 500000
                            THEN "#000000" ELSE "#FFFFFF"
        /\ probe.hex = "#" \o TwoHexDigits(NearestByte(probe.r)) \o TwoHexDigits(NearestByte(probe.g))
                           \o TwoHexDigits(NearestByte(probe.b))
        /\ (probe.r = 1000 /\ probe.g = 0 /\ probe.b = 0) => (probe.hex = "#FF0000" /\ probe.contrast = "#FFFFFF")
        /\ (probe.r = 1000 /\ probe.g = 1000 /\ probe.b = 1000) => probe.contrast = "#000000"
        /\ (299 * probe.r + 587 * probe.g + 114 * probe.b = 500000) => probe.contrast = "#FFFFFF"

\* the colour (0.5, 0.5, 0.5): luminance exactly 0.5, white contrast, and
\* 127.5 rounded up to 128 in each channel
C18_Witness ==
    /\ probe.op = "color" /\ probe.r = 500 /\ probe.g = 500 /\ probe.b = 500
    /\ probe.contrast = "#FFFFFF" /\ probe.hex = "#808080"

\* ---- fallback
HintContains(hint, word) == includesText(hint, KeywordChars[word])

\* C19: when no fill is found the colours follow the hint by first match:
\* danger or delete gives (#DC2626, #FFFFFF), success or confirm
\* (#16A34A, #FFFFFF), warn (#CA8A04, #000000), info (#2563EB, #FFFFFF), and
\* a hint with none of these six words gives (#333333, #FFFFFF).
C19_FallbackFollowsHint ==
    probe.op = "fallback" =>
        <<probe.styles.hexColor, probe.styles.contrastColor>> =
            IF HintContains(probe.hint, "danger") \/ HintContains(probe.hint, "delete")
            THEN <<"#DC2626", "#FFFFFF">>
            ELSE IF HintContains(probe.hint, "success") \/ HintContains(probe.hint, "confirm")
            THEN <<"#16A34A", "#FFFFFF">>
            ELSE IF HintContains(probe.hint, "warn") THEN <<"#CA8A04", "#000000">>
            ELSE IF HintContains(probe.hint, "info") THEN <<"#2563EB", "#FFFFFF">>
            ELSE <<"#333333", "#FFFFFF">>

(***************************************************************************)
(* Selector normalization: claims                                          *)
(***************************************************************************)
\* the run went through all its stages
RunComplete == HealReturned /\ ran = StageOrder

\* the class names a style artifact defines rules for
DefinedClasses(scss) == {scss[i].cls : i \in {j \in 1..Len(scss) : scss[j].kind = "rule"}}

\* the markup has an element whose class attribute begins with btn
ReferencesBtn(html) ==
    \E i \in 1..Len(html) :
        html[i].kind = "open" /\ html[i].cls \in {"btn", "btn btn-primary", "btn btn-secondary", "btn btn-ghost"}

\* a rule of the extracted style artifact bears another class in the returned one
Renamed ==
    \E i \in 1..Len(Extracted(3).file.content) :
        /\ Extracted(3).file.content[i].kind = "rule"
        /\ files.scss.content[i].cls # Extracted(3).file.content[i].cls

\* C20: in a heal run whose markup references the class btn, whose extracted
\* style artifact does not define .btn and defines exactly one other custom
\* class, the returned style artifact has every rule of that class renamed
\* to .btn, whatever the artifact name; and a class is renamed only when the
\* extracted style artifact defines exactly one custom class other than .btn.
C20_SingleCustomClassRenamed ==
    RunComplete =>
        LET scss == Extracted(3).file.content
            custom == DefinedClasses(scss) \ {"btn"}
        IN  /\ (ReferencesBtn(Extracted(2).file.content) /\ "btn" \notin DefinedClasses(scss)
                /\ Cardinality(custom) = 1) =>
                    /\ DefinedClasses(files.scss.content) = {"btn"}
                    /\ \A i \in 1..Len(scss) :
                          files.scss.content[i] = IF scss[i].kind = "rule" THEN [scss[i] EXCEPT !.cls = "btn"]
                                                  ELSE scss[i]
            /\ Renamed => Cardinality(custom) = 1

(***************************************************************************)
(* Structural healing: claims                                              *)
(***************************************************************************)
\* the property-declaration marker: a line '@Input() ...'
HasMarker(ts) == \E i \in 1..Len(ts) : ts[i].kind = "inputDecl"

\* the declarations of the artifact, in order
Declarations(ts) == SelectSeq(ts, LAMBDA tok : tok.kind = "inputDecl")

\* Input is imported from the core framework module
ImportsInputFromCore(ts) ==
    \E i \in 1..Len(ts) :
        /\ ts[i].kind = "import" /\ ts[i].from = "@angular/core"
        /\ \E k \in 1..Len(ts[i].names) : ts[i].names[k] = "Input"

\* the structural-healing step on an artifact with an exported class and a
\* non-empty inferred-input list
HealsStructure ==
    /\ hpc = "component" /\ hpc' = "docs"
    /\ InputsOf(inferredInputs) # << >>
    /\ \E i \in 1..Len(files.typescript.content) : files.typescript.content[i].kind = "class"

\* C21: structural healing with a non-empty inferred-input list on an
\* artifact with an exported class and no property-declaration marker leaves
\* one declaration '@Input() name: type' per inferred input and an import of
\* Input from the core framework module; an artifact that has the marker is
\* left as it is, so healing its own output changes nothing.
C21_InputsDeclaredAndImported ==
    [][HealsStructure =>
          /\ ~HasMarker(files.typescript.content) =>
                /\ Declarations(files'.typescript.content) =
                      [k \in 1..Len(InputsOf(inferredInputs)) |->
                          TsInputDecl(InputsOf(inferredInputs)[k].name, InputsOf(inferredInputs)[k].type, "")]
                /\ ImportsInputFromCore(files'.typescript.content)
          /\ HasMarker(files.typescript.content) => files'.typescript.content = files.typescript.content
          /\ validateAndHealComponent(files'.typescript.content, TRUE, InputsOf(inferredInputs))
                = files'.typescript.content]_vars

(***************************************************************************)
(* Documentation artifact: claims                                          *)
(***************************************************************************)
\* the fenced blocks of the raw text that are documentation: tagged
\* typescript and carrying the marker
DocBlocks ==
    {i \in 1..Len(response) :
        response[i].kind = "fenced" /\ response[i].tag = "typescript" /\ HasMeta(response[i].content)}

\* the fenced block the structural artifact was taken from, 0 if none
StructuralBlock == FirstIndex(response, LAMBDA b : b.kind = "fenced" /\ b.tag = "typescript")

\* C22: in the bundle of a run that went through every stage, a fenced
\* documentation block carrying the marker is returned unchanged as the
\* documentation artifact; the artifact is regenerated only when the raw text
\* has no such block; and it is never the content of the fenced block the
\* structural artifact came from.
C22_DocumentationFromItsOwnBlock ==
    RunComplete =>
        /\ DocBlocks # {} =>
              \E i \in DocBlocks : i # StructuralBlock /\ files.story.content = trimContent(response[i].content)
        /\ StoryRegenerated => DocBlocks = {}
        /\ StructuralBlock # 0 =>
              (files.story.isNull \/ files.story.content # trimContent(response[StructuralBlock].content))

(***************************************************************************)
(* Style strategies: claims                                                *)
(***************************************************************************)
\* the strategy of a file name, the keywords tested in the order
\* interactive-control, container, icon, field, generic
FirstStrategy(fileName) ==
    LET Has(w) == includesText(fileName, KeywordChars[w])
    IN  IF Has("button") \/ Has("btn") \/ Has("badge") \/ Has("chip") THEN "button"
        ELSE IF Has("card") \/ Has("panel") \/ Has("container") \/ Has("modal") \/ Has("dialog") THEN "card"
        ELSE IF Has("icon") \/ Has("svg") THEN "icon"
        ELSE IF Has("input") \/ Has("field") \/ Has("text") THEN "input"
        ELSE "generic"

\* the css properties each strategy is said to enforce
StrategyProperties(strategy) ==
    CASE strategy = "button" ->
            {"background-color", "color", "padding", "border-radius", "font-size", "font-weight",
             "line-height", "display", "align-items", "justify-content"}
      [] strategy = "card" -> {"background-color", "border-radius", "padding", "display", "box-shadow"}
      [] strategy = "icon" -> {"color", "fill"}
      [] strategy = "input" -> {"border", "border-radius", "padding", "background-color"}
      [] OTHER -> {"background-color", "border-radius"}

\* the values a rule of an override block can carry
RuleValues(styles) ==
    {styles.hexColor, styles.contrastColor, styles.borderRadius, styles.padding, styles.fontSize,
     styles.fontWeight, "1px solid " \o styles.hexColor, "#ffffff", "#333333", "inline-flex", "inline-block",
     "block", "center", "1.5", "0 4px 6px -1px rgba(0, 0, 0, 0.1), 0 2px 4px -1px rgba(0, 0, 0, 0.06)"}

\* the rule sets property prop
Sets(rule, prop, styles) == \E v \in RuleValues(styles) : rule = Important(prop, v)

OverrideBlocks(scss) == {i \in 1..Len(scss) : scss[i].kind = "override"}

HostSelectors ==
    {":host", ":host, button, .btn, .p-button, .badge, .chip", ":host, .card, .panel, .container, .modal, .dialog",
     ":host, i, svg, .icon", ":host, input, .input-field, textarea"}

\* C23: the file name is classified by the first matching strategy in the
\* order interactive-control, container, icon, field, generic; one override
\* block targeting :host is appended after the unchanged prior content; and
\* the rules of the block set exactly the properties of the strategy.
C23_OneOverrideBlockPerStrategy ==
    probe.op = "strategy" =>
        LET blk == probe.after[Len(probe.after)]
        IN  /\ Len(probe.after) = Len(probe.before) + 1
            /\ SubSeq(probe.after, 1, Len(probe.before)) = probe.before
            /\ OverrideBlocks(probe.after) = {Len(probe.after)}
            /\ blk.strategy = FirstStrategy(probe.fileName)
            /\ blk.selectors \in HostSelectors
            /\ \A i \in 1..Len(blk.rules) :
                  \E p \in StrategyProperties(blk.strategy) : Sets(blk.rules[i], p, probe.styles)
            /\ \A p \in StrategyProperties(blk.strategy) \ {"font-weight"} :
                  \E i \in 1..Len(blk.rules) : Sets(blk.rules[i], p, probe.styles)

(***************************************************************************)
(* Sanitization: claims                                                    *)
(***************************************************************************)
\* the stages after the sanitization stage
AfterSanitize == {"visual", "normalize", "content", "component", "docs", "validate", "returned"}

\* the run passed extraction and the sanitization stage
Sanitized == hpc \in AfterSanitize /\ ~ExtractionFails

\* the markup as extracted from the raw text
ExtractedHtml == Extracted(2).file.content

\* an opening or closing element whose name carries the toolkit prefix
HasToolkitElement(html) ==
    \E i \in 1..Len(html) : html[i].kind \in {"open", "closeTag"} /\ html[i].tag \in PrimeTags

\* class of the native button by the words the attributes mention
MentionedClass(tok) ==
    IF tok.variant = "secondary" THEN "btn btn-secondary"
    ELSE IF tok.variant = "ghost" THEN "btn btn-ghost"
    ELSE "btn btn-primary"

\* the buttons and texts of the markup, a toolkit button replaced by the
\* native button that carries its label, click handler and disabled binding
NativeButtons(html) ==
    Flatten([i \in 1..Len(html) |->
        IF html[i].kind = "open" /\ html[i].tag = "p-button"
        THEN << HtmlOpen("button", MentionedClass(html[i]), "", html[i].click, html[i].disabled, "") >>
             \o (IF html[i].label # "" THEN << HtmlText(html[i].label) >> ELSE << >>)
        ELSE IF html[i].kind = "text" \/ (html[i].kind = "open" /\ html[i].tag = "button") THEN << html[i] >>
        ELSE << >>])

ButtonsAndTexts(html) ==
    SelectSeq(html, LAMBDA tok : tok.kind = "text" \/ (tok.kind = "open" /\ tok.tag = "button"))

\* C24: from the sanitization stage on, in every run that passed extraction,
\* the markup has no opening or closing element with the toolkit prefix; and
\* right after the stage each toolkit button is a native button with its
\* label text, click handler and disabled binding, of class secondary when
\* the attributes mention secondary, ghost when they mention ghost, primary
\* otherwise.
C24_NoToolkitElements ==
    Sanitized =>
        /\ ~HasToolkitElement(files.html.content)
        /\ hpc = "visual" => ButtonsAndTexts(files.html.content) = NativeButtons(ExtractedHtml)

(***************************************************************************)
(* Artifact sizes: claims                                                  *)
(***************************************************************************)
\* generateParsingSummary: summary.totalSize
totalSize == SeqSum([k \in 1..4 |->
                LET a == <<"typescript", "html", "scss", "story">>[k]
                IN  IF files[a].isNull THEN 0 ELSE files[a].size])

\* total length of the contents of the bundle
TotalContentLength == SeqSum([k \in 1..4 |->
                LET a == <<"typescript", "html", "scss", "story">>[k]
                IN  IF files[a].isNull THEN 0 ELSE CharLen(files[a].content)])

\* C29: every artifact of the returned bundle has a size equal to the length
\* of its returned content, and the reported totalSize is the total length
\* of the returned contents.
C29_SizeIsContentLength ==
    HealReturned =>
        /\ \A a \in Artifacts : ~files[a].isNull => files[a].size = CharLen(files[a].content)
        /\ totalSize = TotalContentLength

(***************************************************************************)
(* Code generation server: claims                                          *)
(***************************************************************************)
\* the directory keys under which some artifact was written
DirectoryKeys == {w.dir : w \in written}

\* letters and digits only, the first a letter
SanitizedKey(key) ==
    /\ key # << >>
    /\ \A i \in 1..Len(key) : key[i] \in Letters \cup Digits
    /\ key[1] \in Letters

HasPathSeparatorOrDots(key) ==
    \/ \E i \in 1..Len(key) : key[i] \in {"/", "\\"}
    \/ \E i \in 1..(Len(key) - 1) : key[i] = "." /\ key[i + 1] = "."

\* C25: every directory key under which artifacts are written is the
\* sanitized component name: letters and digits only, starting with a
\* letter, so it has no path separator and no '..'.
C25_DirectoryKeySanitized ==
    \A key \in DirectoryKeys : SanitizedKey(key) /\ ~HasPathSeparatorOrDots(key)

\* validateComposition accepts every section/component pair of the layout
CompositionValid(r) == \A k \in 1..Len(layoutOf(r).pairs) : layoutOf(r).pairs[k].valid

WrittenFor(r) == {w \in written : w.request = r}

\* C26: a request whose artifacts are written has a layout every pair of
\* which passes composition validation; for a request with a rejected pair
\* the generative model is not called and no artifact is produced, test
\* mode included.
C26_CompositionValidatedBeforeWrite ==
    \A r \in 1..NumRequests :
        handlers[r].body # 0 =>
            /\ WrittenFor(r) # {} => CompositionValid(r)
            /\ ~CompositionValid(r) =>
                  /\ r \notin generatorCalls
                  /\ handlers[r].result.generatedFiles.isNull
                  /\ WrittenFor(r) = {}

\* generation and production validation of request r succeeded
GeneratedAndValid(r) ==
    /\ handlers[r].result.success /\ handlers[r].result.generatedFiles.errors = << >>
    /\ validateProductionCode(handlers[r].result.generatedFiles)

\* C27: a step writes files only for a request whose generation reported
\* success and whose production validation was valid; lastGeneratedFiles is
\* replaced only by a request in which generation, production validation,
\* file writing and documentation all succeeded, and a request that ends in
\* a failure leaves it as it was.
C27_WriteAndStoreOnlyOnSuccess ==
    [][/\ \A w \in written' \ written : GeneratedAndValid(w.request)
       /\ lastGeneratedFiles' # lastGeneratedFiles =>
             \E r \in 1..NumRequests :
                 /\ lastGeneratedFiles'.request = r
                 /\ lastGeneratedFiles'.files = handlers[r].result.generatedFiles
                 /\ GeneratedAndValid(r)
                 /\ {w.type : w \in WrittenFor(r)} = {"typescript", "html", "scss"}
                 /\ handlers[r].docs /\ handlers'[r].status = 200
       /\ \A r \in 1..NumRequests :
             (handlers[r].pc # "done" /\ handlers'[r].pc = "done" /\ handlers'[r].status # 200)
                 => lastGeneratedFiles' = lastGeneratedFiles]_vars

\* request 1 succeeded and was stored; request 2 wrote its files, failed in
\* the documentation step and left the stored value alone
C27_Witness ==
    /\ handlers[1].pc = "done" /\ handlers[1].status = 200
    /\ handlers[2].pc = "done" /\ handlers[2].status = 500 /\ handlers[2].step = "smart-documentation"
    /\ WrittenFor(2) # {}
    /\ ~lastGeneratedFiles.isNull /\ lastGeneratedFiles.request = 1

(***************************************************************************)
(* Input inference: claims                                                 *)
(***************************************************************************)
\* C28: inferAngularInputs returns at most 3 inputs on every return path,
\* the one taken when a rule raises included; templateBindings is as long
\* as inputs; and a warning is recorded whenever inputs were dropped.
C28_AtMostThreeInputs ==
    probe.op = "infer" =>
        /\ Len(probe.result.inputs) <= 3
        /\ Len(probe.result.templateBindings) = Len(probe.result.inputs)
        /\ Len(probe.result.inputs) < Len(pushedInputs(probe.node)) => probe.result.warnings # << >>

(***************************************************************************)
(* The two validators compared: claims                                     *)
(***************************************************************************)
\* results of validateNode on the tree of call c, the root having no parent
ValidatorResults(c) == validateNode(calls[c].tree, 1, 0)

StatusesOf(results, k) == {results[i].status : i \in {j \in 1..Len(results) : results[j].id = k}}

\* the registered node k lies under a parent whose non-wildcard canContain
\* list lacks it and whose cannotContain list does not forbid it
CanContainMismatch(t, k) ==
    /\ t.parent[k] # 0
    /\ validatorLookup(NameOf(t, k)) \in DOMAIN registry
    /\ LET plk == validatorLookup(NameOf(t, t.parent[k]))
       IN  /\ plk \in DOMAIN registry /\ registry[plk].hasComposition
           /\ registry[plk].canContain # << >> /\ ~includes(registry[plk].canContain, STAR)
           /\ ~includes(registry[plk].canContain, validatorLookup(NameOf(t, k)))
           /\ ~includes(registry[plk].cannotContain, validatorLookup(NameOf(t, k)))
           /\ ~includes(registry[plk].cannotContain, STAR)

\* C30: every node for which validate() records a CRITICAL violation gets an
\* ERROR result from validateNode on the same tree; and a node whose only
\* finding is a non-wildcard canContain mismatch gets a WARNING and no
\* ERROR, so that a frame with such findings alone passes.
C30_SecondValidatorIsStricter ==
    Returned(1) =>
        LET t == calls[1].tree
            results == ValidatorResults(1)
        IN  /\ \A i \in 1..Len(Report(1).violations) :
                  Report(1).violations[i].severity = "CRITICAL"
                      => "ERROR" \in StatusesOf(results, Report(1).violations[i].node)
            /\ \A k \in 1..t.n :
                  (StatusesOf(results, k) # {} /\ CanContainMismatch(t, k))
                      => StatusesOf(results, k) = {"WARNING"}
            /\ (\A i \in 1..Len(results) : results[i].status # "ERROR") => framePass(results)
====
